---- MODULE Spec2Model ----
(***************************************************************************)
(* Ledger state machine of simple_payment_engine.                          *)
(*                                                                         *)
(* The ledger is the pair of stores the DefaultTransactionsManager owns:   *)
(* the customer account store (HashMap CustomerId -> CustomerAccount) and  *)
(* the transaction history store (HashMap TransactionId ->                 *)
(* TransactionRequest and HashMap TransactionId -> TransactionState).      *)
(* One step of the model is one iteration of the processing loop: a        *)
(* request is read, filtered by structure_validation and, when it passes,  *)
(* handled by handle_transaction.  Handlers are operators from a ledger    *)
(* and a request to the ledger they leave and the value they return, so a  *)
(* property of "every request handled in a reachable state" is a state     *)
(* predicate that quantifies over the requests.                            *)
(*                                                                         *)
(* Decimal amounts are integers counted in units of 0.0001.  Where the     *)
(* representation of a Decimal matters it is followed on its own: the      *)
(* reader works on mantissa and scale (SpecReader), and SpecScaled keeps   *)
(* the scale of every stored amount next to the ledger.  SpecValidation    *)
(* examines structure_validation alone, and SpecDirect calls               *)
(* handle_transaction without the filter of the processing loop.           *)
(* SpecFailing runs the handlers over stores whose calls can return Err.   *)
(* Option<T> is a sequence of length at most one: None is << >> and        *)
(* Some(x) is <<x>>.  A HashMap is a function whose DOMAIN is its key set. *)
(***************************************************************************)
EXTENDS Integers, Sequences, FiniteSets, TLC

\* ---------------------------------------------------------------- bounds
NumCustomers == 2
MaxTx == 3
MaxAmount == 2
NumDirectCustomers == 1   \* customers of the calls made without main's filter
MaxMantissa == 200        \* largest digit string of an amount in the input file
MaxScaledAmount == 1      \* largest amount of a request whose scale is followed
MaxRawScale == 6          \* most fractional digits of an amount in the input file
MaxFailures == 1          \* store calls that return Err in one run

CustomerIds == 1..NumCustomers
TransactionIds == 1..MaxTx

\* ------------------------------------------------- Option and HashMap
None == << >>
Some(x) == <<x>>
is_some(o) == o # None
unwrap_or(o, d) == IF o = None THEN d ELSE o[1]

get(m, k) == IF k \in DOMAIN m THEN Some(m[k]) ELSE None
insert(m, k, v) == [x \in (DOMAIN m) \cup {k} |-> IF x = k THEN v ELSE m[x]]
EmptyMap == [x \in {} |-> 0]

\* ------------------------------------------------------ request types
TransactionType == {"Deposit", "Withdrawal", "Dispute", "Resolve", "Chargeback"}

\* The amounts a parsed request can carry: absent, negative, zero, positive.
AmountInputs == {None} \cup {Some(a) : a \in (-1)..MaxAmount}

TransactionRequest ==
    [transaction_type : TransactionType,
     client_id : CustomerIds,
     transaction_id : TransactionIds,
     amount : AmountInputs]

TransactionStateDefault == [held |-> FALSE, charged_back |-> FALSE]

\* ------------------------------------------- Decimal as the reader sees it
\* rust_decimal's Decimal: an integer mantissa m and a scale, the number of
\* fractional digits; its value is m / 10^scale.
Decimal(m, scale) == [m |-> m, scale |-> scale]

RECURSIVE Pow10(_)
Pow10(n) == IF n = 0 THEN 1 ELSE 10 * Pow10(n - 1)

\* Decimal::set_scale: the same mantissa under another scale.
dec_set_scale(d, scale) == [d EXCEPT !.scale = scale]

\* Mutant: trunc rounds to the nearest integer, halves away from zero.
dec_trunc_Rounds(d) ==
    LET p == Pow10(d.scale)
    IN  IF d.m >= 0 THEN Decimal((d.m + (p \div 2)) \div p, 0)
        ELSE Decimal(-((-d.m + (p \div 2)) \div p), 0)

\* Decimal::trunc: the integral part, the fractional digits dropped.
dec_trunc(d) ==
    LET p == Pow10(d.scale)
    IN  IF d.m >= 0 THEN Decimal(d.m \div p, 0)
        ELSE Decimal(-((-d.m) \div p), 0)

\* DefaultTransactionRequestsReader::new: enforced_scale: 4.
enforced_scale == 4

\* The amount of read_enforces_the_decimal_scale: 10.23456.
TestAmount == Decimal(1023456, 5)

\* The amounts a line of the input file can carry.
RawAmounts ==
    {None} \cup {Some(TestAmount)}
    \cup {Some(Decimal(m, scale)) :
            m \in (-MaxMantissa)..MaxMantissa, scale \in 0..MaxRawScale}

\* The records the csv deserializer hands to the reader's map closure.
RawRecords ==
    [transaction_type : TransactionType,
     client_id : CustomerIds,
     transaction_id : TransactionIds,
     amount : RawAmounts]

\* The closure of DefaultTransactionRequestsReader::read applied to one record.
read_record(record) ==
    IF record.amount # None /\ record.amount[1].scale > enforced_scale
    THEN LET amount == dec_set_scale(record.amount[1],
                                     record.amount[1].scale - enforced_scale)
             new_amount == dec_set_scale(dec_trunc(amount), enforced_scale)
         IN  [record EXCEPT !.amount = Some(new_amount)]
    ELSE record

\* ------------------------------------------ customer account store
CustomerAccountNew(available, held, locked) ==
    [available |-> available, held |-> held, locked |-> locked]

get_available(storage, customer_id) ==
    IF customer_id \in DOMAIN storage
    THEN Some(storage[customer_id].available) ELSE None

get_held_amount(storage, customer_id) ==
    IF customer_id \in DOMAIN storage
    THEN Some(storage[customer_id].held) ELSE None

get_locked_status(storage, customer_id) ==
    IF customer_id \in DOMAIN storage
    THEN Some(storage[customer_id].locked) ELSE None

\* Setters return the new storage and whether the call panicked.
StoreOk(storage) == [storage |-> storage, panicked |-> FALSE]
StorePanic(storage) == [storage |-> storage, panicked |-> TRUE]

\* Mutant: set_available replaces the whole account instead of one field.
set_available_Recreates(storage, customer_id, balance) ==
    StoreOk(insert(storage, customer_id, CustomerAccountNew(balance, 0, FALSE)))

\* Mutant: set_available changes an existing account only.
set_available_NoCreate(storage, customer_id, balance) ==
    IF customer_id \in DOMAIN storage
    THEN StoreOk([storage EXCEPT ![customer_id].available = balance])
    ELSE StoreOk(storage)

\* Mutant: set_available adds the value to the balance of an existing account.
set_available_AddsToBalance(storage, customer_id, balance) ==
    IF customer_id \in DOMAIN storage
    THEN StoreOk([storage EXCEPT ![customer_id].available = @ + balance])
    ELSE StoreOk(insert(storage, customer_id, CustomerAccountNew(balance, 0, FALSE)))

set_available(storage, customer_id, balance) ==
    IF customer_id \in DOMAIN storage
    THEN StoreOk([storage EXCEPT ![customer_id].available = balance])
    ELSE StoreOk(insert(storage, customer_id, CustomerAccountNew(balance, 0, FALSE)))

\* Mutant: set_held_amount changes a copy and the stored account keeps its value.
set_held_amount_Dropped(storage, customer_id, balance) ==
    IF customer_id \in DOMAIN storage THEN StoreOk(storage) ELSE StorePanic(storage)

\* Mutant: set_held_amount creates the account when there is none.
set_held_amount_CreatesAccount(storage, customer_id, balance) ==
    IF customer_id \in DOMAIN storage
    THEN StoreOk([storage EXCEPT ![customer_id].held = balance])
    ELSE StoreOk(insert(storage, customer_id, CustomerAccountNew(0, balance, FALSE)))

\* Mutant: set_held_amount also locks the account.
set_held_amount_AlsoLocks(storage, customer_id, balance) ==
    IF customer_id \in DOMAIN storage
    THEN StoreOk([storage EXCEPT ![customer_id].held = balance,
                                 ![customer_id].locked = TRUE])
    ELSE StorePanic(storage)

set_held_amount(storage, customer_id, balance) ==
    IF customer_id \in DOMAIN storage
    THEN StoreOk([storage EXCEPT ![customer_id].held = balance])
    ELSE StorePanic(storage)

\* Mutant: set_locked_status changes a copy and the stored account keeps its flag.
set_locked_status_Dropped(storage, customer_id, locked) ==
    IF customer_id \in DOMAIN storage THEN StoreOk(storage) ELSE StorePanic(storage)

\* Mutant: set_locked_status sets the flag of every stored account.
set_locked_status_LocksAll(storage, customer_id, locked) ==
    IF customer_id \in DOMAIN storage
    THEN StoreOk([x \in DOMAIN storage |-> [storage[x] EXCEPT !.locked = locked]])
    ELSE StorePanic(storage)

set_locked_status(storage, customer_id, locked) ==
    IF customer_id \in DOMAIN storage
    THEN StoreOk([storage EXCEPT ![customer_id].locked = locked])
    ELSE StorePanic(storage)

CustomerAccountReport(client, account) ==
    [client |-> client,
     available |-> account.available,
     held |-> account.held,
     locked |-> account.locked,
     total |-> account.available + account.held]

\* The orders in which an iteration can visit the keys of a HashMap: any.
IterationOrders(keys) ==
    {f \in [1..Cardinality(keys) -> keys] :
        \A i, j \in 1..Cardinality(keys) : i # j => f[i] # f[j]}

\* Mutant: the total of a report leaves the held amount out.
list_accounts_TotalIsAvailable(storage) ==
    {[i \in 1..Cardinality(DOMAIN storage) |->
        [CustomerAccountReport(f[i], storage[f[i]])
            EXCEPT !.total = storage[f[i]].available]] :
        f \in IterationOrders(DOMAIN storage)}

\* The vectors list_accounts can return: one report per stored account, in
\* the HashMap's iteration order, which is not specified.
list_accounts(storage) ==
    {[i \in 1..Cardinality(DOMAIN storage) |->
        CustomerAccountReport(f[i], storage[f[i]])] :
        f \in IterationOrders(DOMAIN storage)}

\* ---------------------------------------- transaction history store
write_transaction(history, transaction_request) ==
    insert(history, transaction_request.transaction_id, transaction_request)

read_transaction(history, transaction_id) == get(history, transaction_id)

\* Mutant: write_transaction_state inserts only when the id has no entry yet.
write_transaction_state_KeepsOld(state, transaction_id, transaction_state) ==
    IF transaction_id \in DOMAIN state THEN state
    ELSE insert(state, transaction_id, transaction_state)

\* Mutant: writing the default disposition removes the entry.
write_transaction_state_DropsDefault(state, transaction_id, transaction_state) ==
    IF transaction_state = TransactionStateDefault
    THEN [x \in (DOMAIN state) \ {transaction_id} |-> state[x]]
    ELSE insert(state, transaction_id, transaction_state)

write_transaction_state(state, transaction_id, transaction_state) ==
    insert(state, transaction_id, transaction_state)

read_transaction_state(state, transaction_id) == get(state, transaction_id)

\* ------------------------------------------------------------ ledger
\* accounts: InMemoryCustomerAccountProvider.storage
\* history, state: InMemoryTransactionHistoryProvider.history / .state
Ledger(accounts_, history_, state_) ==
    [accounts |-> accounts_, history |-> history_, state |-> state_]

EmptyLedger == Ledger(EmptyMap, EmptyMap, EmptyMap)

\* Outcome of a handler: the ledger it leaves and what it returned.
Ok(L, applied) == [ledger |-> L, result |-> IF applied THEN "Ok(true)" ELSE "Ok(false)"]
Panic(L) == [ledger |-> L, result |-> "panic"]

\* ---------------------------------------------------------- handlers
\* Mutant: the duplicate check never finds the id.
is_duplicate_transaction_id_Never(L, transaction_id) == FALSE

\* Mutant: the duplicate check looks the id up in the disposition table.
is_duplicate_transaction_id_WrongTable(L, transaction_id) ==
    is_some(read_transaction_state(L.state, transaction_id))

is_duplicate_transaction_id(L, transaction_id) ==
    is_some(read_transaction(L.history, transaction_id))

\* Mutant: a deposit that is skipped as a duplicate still stores its request.
deposit_RecordsWhenSkipped(L, req) ==
    IF is_duplicate_transaction_id(L, req.transaction_id)
    THEN Ok(Ledger(L.accounts, write_transaction(L.history, req), L.state), FALSE)
    ELSE
    LET existing_amount == unwrap_or(get_available(L.accounts, req.client_id), 0)
        a1 == set_available(L.accounts, req.client_id,
                            existing_amount + req.amount[1])
        h1 == write_transaction(L.history, req)
    IN  Ok(Ledger(a1.storage, h1, L.state), TRUE)

\* Mutant: a deposit into a locked account is skipped.
deposit_RefusesLocked(L, req) ==
    IF is_duplicate_transaction_id(L, req.transaction_id) THEN Ok(L, FALSE)
    ELSE IF get_locked_status(L.accounts, req.client_id) = Some(TRUE)
    THEN Ok(L, FALSE)
    ELSE
    LET existing_amount == unwrap_or(get_available(L.accounts, req.client_id), 0)
        a1 == set_available(L.accounts, req.client_id,
                            existing_amount + req.amount[1])
        h1 == write_transaction(L.history, req)
    IN  Ok(Ledger(a1.storage, h1, L.state), TRUE)

deposit(L, req) ==
    IF is_duplicate_transaction_id(L, req.transaction_id) THEN Ok(L, FALSE)
    ELSE
    LET existing_amount == unwrap_or(get_available(L.accounts, req.client_id), 0)
    IN  IF req.amount = None THEN Panic(L)    \* expect("... when depositing!")
        ELSE
        LET a1 == set_available(L.accounts, req.client_id,
                                existing_amount + req.amount[1])
            h1 == write_transaction(L.history, req)
        IN  Ok(Ledger(a1.storage, h1, L.state), TRUE)

\* withdraw with its funds comparison and its no-account branch made
\* optional: the basis of its mutants.
\*   strict:     the available funds must exceed the amount
\*   no_account: what a customer without an account gets:
\*               "skip", "record" (skipped, request stored) or "panic"
withdraw_Variant(L, req, strict, no_account) ==
    IF is_duplicate_transaction_id(L, req.transaction_id) THEN Ok(L, FALSE)
    ELSE IF get_locked_status(L.accounts, req.client_id) = Some(TRUE)
    THEN Ok(L, FALSE)
    ELSE
    LET existing == get_available(L.accounts, req.client_id)
    IN  IF existing = None
        THEN CASE no_account = "skip"   -> Ok(L, FALSE)
               [] no_account = "record" ->
                    Ok(Ledger(L.accounts, write_transaction(L.history, req),
                              L.state), FALSE)
               [] no_account = "panic"  -> Panic(L)
        ELSE IF (strict /\ existing[1] > req.amount[1])
                \/ (~strict /\ existing[1] >= req.amount[1])
        THEN LET a1 == set_available(L.accounts, req.client_id,
                                     existing[1] - req.amount[1])
                 h1 == write_transaction(L.history, req)
             IN  Ok(Ledger(a1.storage, h1, L.state), TRUE)
        ELSE Ok(L, FALSE)

\* Mutant: a withdrawal of the whole available amount is skipped.
withdraw_NeedsMoreThanAmount(L, req) == withdraw_Variant(L, req, TRUE, "skip")

\* Mutant: a withdrawal for a customer without an account is skipped but stored.
withdraw_RecordsWhenNoAccount(L, req) == withdraw_Variant(L, req, FALSE, "record")

\* Mutant: a withdrawal for a customer without an account is a fatal error.
withdraw_NoAccountIsFatal(L, req) == withdraw_Variant(L, req, FALSE, "panic")

\* Mutant: withdraw without the locked-account check.
withdraw_NoLockCheck(L, req) ==
    IF is_duplicate_transaction_id(L, req.transaction_id) THEN Ok(L, FALSE)
    ELSE
    LET existing == get_available(L.accounts, req.client_id)
    IN  IF existing = None THEN Ok(L, FALSE)
        ELSE IF req.amount = None THEN Panic(L)
        ELSE
        LET existing_amount == existing[1]
            transaction_amount == req.amount[1]
        IN  IF existing_amount >= transaction_amount
            THEN LET a1 == set_available(L.accounts, req.client_id,
                                         existing_amount - transaction_amount)
                     h1 == write_transaction(L.history, req)
                 IN  Ok(Ledger(a1.storage, h1, L.state), TRUE)
            ELSE Ok(L, FALSE)

\* Mutant: withdraw without the comparison of the funds with the amount.
withdraw_NoFundsCheck(L, req) ==
    IF is_duplicate_transaction_id(L, req.transaction_id) THEN Ok(L, FALSE)
    ELSE IF get_locked_status(L.accounts, req.client_id) = Some(TRUE)
    THEN Ok(L, FALSE)
    ELSE
    LET existing == get_available(L.accounts, req.client_id)
    IN  IF existing = None THEN Ok(L, FALSE)
        ELSE LET a1 == set_available(L.accounts, req.client_id,
                                     existing[1] - req.amount[1])
                 h1 == write_transaction(L.history, req)
             IN  Ok(Ledger(a1.storage, h1, L.state), TRUE)

withdraw(L, req) ==
    IF is_duplicate_transaction_id(L, req.transaction_id) THEN Ok(L, FALSE)
    ELSE
    LET locked == get_locked_status(L.accounts, req.client_id)
    IN  IF is_some(locked) /\ locked[1] THEN Ok(L, FALSE)
        ELSE
        LET existing == get_available(L.accounts, req.client_id)
        IN  IF existing = None THEN Ok(L, FALSE)
            ELSE IF req.amount = None THEN Panic(L)  \* expect("... when withdrawing!")
            ELSE
            LET existing_amount == existing[1]
                transaction_amount == req.amount[1]
            IN  IF existing_amount >= transaction_amount
                THEN LET a1 == set_available(L.accounts, req.client_id,
                                             existing_amount - transaction_amount)
                         h1 == write_transaction(L.history, req)
                     IN  Ok(Ledger(a1.storage, h1, L.state), TRUE)
                ELSE Ok(L, FALSE)

\* dispute with two of its checks made optional: the basis of its mutants.
\*   check_client:   skip when the record belongs to another client
\*   require_record: skip when no record is stored (otherwise a missing
\*                   record is disputed with amount 0)
dispute_Variant(L, req, check_client, require_record) ==
    LET existing_amount == unwrap_or(get_available(L.accounts, req.client_id), 0)
        found == read_transaction(L.history, req.transaction_id)
    IN  IF found = None /\ require_record THEN Ok(L, FALSE)
        ELSE IF found # None /\ check_client /\ found[1].client_id # req.client_id
        THEN Ok(L, FALSE)
        ELSE
        LET disputed_amount == IF found = None THEN 0 ELSE found[1].amount[1]
            disputed_transaction_state ==
                read_transaction_state(L.state, req.transaction_id)
        IN  IF is_some(disputed_transaction_state)
               /\ (disputed_transaction_state[1].held
                   \/ disputed_transaction_state[1].charged_back)
            THEN Ok(L, FALSE)
            ELSE
            LET a1 == set_available(L.accounts, req.client_id,
                                    existing_amount - disputed_amount)
                existing_held_amount ==
                    unwrap_or(get_held_amount(a1.storage, req.client_id), 0)
                a2 == set_held_amount(a1.storage, req.client_id,
                                      existing_held_amount + disputed_amount)
                new_transaction_state ==
                    IF is_some(disputed_transaction_state)
                    THEN [disputed_transaction_state[1] EXCEPT !.held = TRUE]
                    ELSE [TransactionStateDefault EXCEPT !.held = TRUE]
                s1 == write_transaction_state(L.state, req.transaction_id,
                                              new_transaction_state)
            IN  Ok(Ledger(a2.storage, L.history, s1), TRUE)

\* dispute with the two halves of its already-disputed check made optional.
\*   check_held:         skip when the disposition has held = true
\*   check_charged_back: skip when the disposition has charged_back = true
dispute_StateCheck(L, req, check_held, check_charged_back) ==
    LET existing_amount == unwrap_or(get_available(L.accounts, req.client_id), 0)
        found == read_transaction(L.history, req.transaction_id)
    IN  IF found = None THEN Ok(L, FALSE)
        ELSE IF found[1].client_id # req.client_id THEN Ok(L, FALSE)
        ELSE
        LET disputed_amount == found[1].amount[1]
            disputed_transaction_state ==
                read_transaction_state(L.state, req.transaction_id)
        IN  IF is_some(disputed_transaction_state)
               /\ ((check_held /\ disputed_transaction_state[1].held)
                   \/ (check_charged_back
                       /\ disputed_transaction_state[1].charged_back))
            THEN Ok(L, FALSE)
            ELSE
            LET a1 == set_available(L.accounts, req.client_id,
                                    existing_amount - disputed_amount)
                existing_held_amount ==
                    unwrap_or(get_held_amount(a1.storage, req.client_id), 0)
                a2 == set_held_amount(a1.storage, req.client_id,
                                      existing_held_amount + disputed_amount)
                new_transaction_state ==
                    IF is_some(disputed_transaction_state)
                    THEN [disputed_transaction_state[1] EXCEPT !.held = TRUE]
                    ELSE [TransactionStateDefault EXCEPT !.held = TRUE]
                s1 == write_transaction_state(L.state, req.transaction_id,
                                              new_transaction_state)
            IN  Ok(Ledger(a2.storage, L.history, s1), TRUE)

\* Mutant: dispute that skips a charged-back transaction but not a held one.
dispute_ChecksChargedBackOnly(L, req) == dispute_StateCheck(L, req, FALSE, TRUE)

\* Mutant: dispute that skips a held transaction but not a charged-back one.
dispute_ChecksHeldOnly(L, req) == dispute_StateCheck(L, req, TRUE, FALSE)

\* Mutant: dispute without the client-id comparison.
dispute_NoClientCheck(L, req) == dispute_Variant(L, req, FALSE, TRUE)

\* Mutant: dispute that takes a missing record for one of amount zero.
dispute_NoRecordCheck(L, req) == dispute_Variant(L, req, TRUE, FALSE)

\* Mutant: dispute skipped when the available funds do not cover the amount.
dispute_RefusesOverdraft(L, req) ==
    LET found == read_transaction(L.history, req.transaction_id)
    IN  IF found # None
           /\ unwrap_or(get_available(L.accounts, req.client_id), 0)
                  < found[1].amount[1]
        THEN Ok(L, FALSE)
        ELSE dispute_Variant(L, req, TRUE, TRUE)

\* Mutant: a transaction that has a disposition is never disputed again.
dispute_OnlyOnce(L, req) ==
    IF read_transaction_state(L.state, req.transaction_id) # None
    THEN Ok(L, FALSE)
    ELSE dispute_Variant(L, req, TRUE, TRUE)

\* Mutant: a dispute on a locked account is skipped.
dispute_RefusesLocked(L, req) ==
    IF get_locked_status(L.accounts, req.client_id) = Some(TRUE)
    THEN Ok(L, FALSE)
    ELSE dispute_Variant(L, req, TRUE, TRUE)

\* Mutant: a recorded Withdrawal cannot be disputed.
dispute_SkipsWithdrawals(L, req) ==
    LET found == read_transaction(L.history, req.transaction_id)
    IN  IF found # None /\ found[1].transaction_type = "Withdrawal"
        THEN Ok(L, FALSE)
        ELSE dispute_Variant(L, req, TRUE, TRUE)

dispute(L, req) ==
    LET existing_amount == unwrap_or(get_available(L.accounts, req.client_id), 0)
        found == read_transaction(L.history, req.transaction_id)
    IN  IF found = None THEN Ok(L, FALSE)
        ELSE
        LET disputed_transaction == found[1]
        IN  IF disputed_transaction.client_id # req.client_id THEN Ok(L, FALSE)
            ELSE IF disputed_transaction.amount = None THEN Panic(L)
            ELSE
            LET disputed_amount == disputed_transaction.amount[1]
                disputed_transaction_state ==
                    read_transaction_state(L.state, req.transaction_id)
            IN  IF is_some(disputed_transaction_state)
                   /\ (disputed_transaction_state[1].held
                       \/ disputed_transaction_state[1].charged_back)
                THEN Ok(L, FALSE)
                ELSE
                LET a1 == set_available(L.accounts, req.client_id,
                                        existing_amount - disputed_amount)
                    existing_held_amount ==
                        unwrap_or(get_held_amount(a1.storage, req.client_id), 0)
                    a2 == set_held_amount(a1.storage, req.client_id,
                                          existing_held_amount + disputed_amount)
                    new_transaction_state ==
                        IF is_some(disputed_transaction_state)
                        THEN [disputed_transaction_state[1] EXCEPT !.held = TRUE]
                        ELSE [TransactionStateDefault EXCEPT !.held = TRUE]
                    s1 == write_transaction_state(L.state, req.transaction_id,
                                                  new_transaction_state)
                IN  IF a2.panicked THEN Panic(Ledger(a1.storage, L.history, L.state))
                    ELSE Ok(Ledger(a2.storage, L.history, s1), TRUE)

\* resolve with one check made optional and one outcome made variable:
\* the basis of its mutants.
\*   check_held:     skip when the disposition has held = false
\*   short_is_fatal: panic when the account holds less than the amount
\*                   (otherwise skip)
resolve_Variant(L, req, check_held, short_is_fatal) ==
    LET existing_amount == unwrap_or(get_available(L.accounts, req.client_id), 0)
        found == read_transaction(L.history, req.transaction_id)
    IN  IF found = None THEN Ok(L, FALSE)
        ELSE IF found[1].client_id # req.client_id THEN Ok(L, FALSE)
        ELSE
        LET disputed_amount == found[1].amount[1]
            st == read_transaction_state(L.state, req.transaction_id)
        IN  IF st = None THEN Ok(L, FALSE)
            ELSE IF (check_held /\ ~st[1].held) \/ st[1].charged_back
            THEN Ok(L, FALSE)
            ELSE
            LET held == get_held_amount(L.accounts, req.client_id)
            IN  IF held = None THEN Ok(L, FALSE)
                ELSE IF held[1] < disputed_amount
                THEN (IF short_is_fatal THEN Panic(L) ELSE Ok(L, FALSE))
                ELSE
                LET a1 == set_available(L.accounts, req.client_id,
                                        existing_amount + disputed_amount)
                    a2 == set_held_amount(a1.storage, req.client_id,
                                          held[1] - disputed_amount)
                    s1 == write_transaction_state(L.state, req.transaction_id,
                                                  [st[1] EXCEPT !.held = FALSE])
                IN  Ok(Ledger(a2.storage, L.history, s1), TRUE)

\* Mutant: resolve that does not look at the held flag of the disposition.
resolve_NoHeldCheck(L, req) == resolve_Variant(L, req, FALSE, TRUE)

\* Mutant: resolve that skips when the account holds less than the amount.
resolve_SkipsWhenHeldShort(L, req) == resolve_Variant(L, req, TRUE, FALSE)

\* Mutant: an applied resolve leaves the disposition as it was.
resolve_KeepsHeldFlag(L, req) ==
    LET out == resolve_Variant(L, req, TRUE, TRUE)
    IN  IF out.result = "Ok(true)"
        THEN [out EXCEPT !.ledger.state = L.state]
        ELSE out

resolve(L, req) ==
    LET existing_amount == unwrap_or(get_available(L.accounts, req.client_id), 0)
        found == read_transaction(L.history, req.transaction_id)
    IN  IF found = None THEN Ok(L, FALSE)
        ELSE
        LET disputed_transaction == found[1]
        IN  IF disputed_transaction.client_id # req.client_id THEN Ok(L, FALSE)
            ELSE IF disputed_transaction.amount = None THEN Panic(L)
            ELSE
            LET disputed_amount == disputed_transaction.amount[1]
                st == read_transaction_state(L.state, req.transaction_id)
            IN  IF st = None THEN Ok(L, FALSE)
                ELSE
                LET disputed_transaction_state == st[1]
                IN  IF ~disputed_transaction_state.held
                       \/ disputed_transaction_state.charged_back
                    THEN Ok(L, FALSE)
                    ELSE
                    LET held == get_held_amount(L.accounts, req.client_id)
                    IN  IF held = None THEN Ok(L, FALSE)
                        ELSE
                        LET existing_held_amount == held[1]
                        IN  IF existing_held_amount < disputed_amount THEN Panic(L)
                            ELSE
                            LET a1 == set_available(L.accounts, req.client_id,
                                          existing_amount + disputed_amount)
                                a2 == set_held_amount(a1.storage, req.client_id,
                                          existing_held_amount - disputed_amount)
                                new_transaction_state ==
                                    [disputed_transaction_state EXCEPT !.held = FALSE]
                                s1 == write_transaction_state(L.state,
                                          req.transaction_id, new_transaction_state)
                            IN  IF a2.panicked
                                THEN Panic(Ledger(a1.storage, L.history, L.state))
                                ELSE Ok(Ledger(a2.storage, L.history, s1), TRUE)

\* chargeback with one check and one write made optional.
\*   check_client: skip when the record belongs to another client
\*   clear_held:   the new disposition has held = false
chargeback_Variant(L, req, check_client, clear_held) ==
    LET found == read_transaction(L.history, req.transaction_id)
    IN  IF found = None THEN Ok(L, FALSE)
        ELSE IF check_client /\ found[1].client_id # req.client_id
        THEN Ok(L, FALSE)
        ELSE
        LET disputed_amount == found[1].amount[1]
            st == read_transaction_state(L.state, req.transaction_id)
        IN  IF st = None THEN Ok(L, FALSE)
            ELSE IF ~st[1].held \/ st[1].charged_back THEN Ok(L, FALSE)
            ELSE
            LET held == get_held_amount(L.accounts, req.client_id)
            IN  IF held = None THEN Ok(L, FALSE)
                ELSE IF held[1] < disputed_amount THEN Panic(L)
                ELSE
                LET a1 == set_held_amount(L.accounts, req.client_id,
                                          held[1] - disputed_amount)
                    a2 == set_locked_status(a1.storage, req.client_id, TRUE)
                    new_transaction_state ==
                        IF clear_held
                        THEN [st[1] EXCEPT !.held = FALSE, !.charged_back = TRUE]
                        ELSE [st[1] EXCEPT !.charged_back = TRUE]
                    s1 == write_transaction_state(L.state, req.transaction_id,
                                                  new_transaction_state)
                IN  Ok(Ledger(a2.storage, L.history, s1), TRUE)

\* Mutant: chargeback without the client-id comparison.
chargeback_NoClientCheck(L, req) == chargeback_Variant(L, req, FALSE, TRUE)

\* Mutant: chargeback that sets charged_back and leaves held as it was.
chargeback_KeepsHeld(L, req) == chargeback_Variant(L, req, TRUE, FALSE)

\* Mutant: an applied chargeback gives the amount back to available.
chargeback_RefundsAvailable(L, req) ==
    LET out == chargeback_Variant(L, req, TRUE, TRUE)
    IN  IF out.result = "Ok(true)"
        THEN [out EXCEPT !.ledger.accounts[req.client_id].available =
                            @ + L.history[req.transaction_id].amount[1]]
        ELSE out

chargeback(L, req) ==
    LET found == read_transaction(L.history, req.transaction_id)
    IN  IF found = None THEN Ok(L, FALSE)
        ELSE
        LET disputed_transaction == found[1]
        IN  IF disputed_transaction.client_id # req.client_id THEN Ok(L, FALSE)
            ELSE IF disputed_transaction.amount = None THEN Panic(L)
            ELSE
            LET disputed_amount == disputed_transaction.amount[1]
                st == read_transaction_state(L.state, req.transaction_id)
            IN  IF st = None THEN Ok(L, FALSE)
                ELSE
                LET disputed_transaction_state == st[1]
                IN  IF ~disputed_transaction_state.held
                       \/ disputed_transaction_state.charged_back
                    THEN Ok(L, FALSE)
                    ELSE
                    LET held == get_held_amount(L.accounts, req.client_id)
                    IN  IF held = None THEN Ok(L, FALSE)
                        ELSE
                        LET existing_held_amount == held[1]
                        IN  IF existing_held_amount < disputed_amount THEN Panic(L)
                            ELSE
                            LET a1 == set_held_amount(L.accounts, req.client_id,
                                          existing_held_amount - disputed_amount)
                                a2 == set_locked_status(a1.storage, req.client_id, TRUE)
                                new_transaction_state ==
                                    [disputed_transaction_state EXCEPT
                                        !.held = FALSE, !.charged_back = TRUE]
                                s1 == write_transaction_state(L.state,
                                          req.transaction_id, new_transaction_state)
                            IN  IF a1.panicked THEN Panic(L)
                                ELSE IF a2.panicked
                                THEN Panic(Ledger(a1.storage, L.history, L.state))
                                ELSE Ok(Ledger(a2.storage, L.history, s1), TRUE)

\* Mutant: an amount of zero counts as positive.
has_positive_amount_AllowsZero(req) ==
    IF req.amount = None THEN FALSE ELSE req.amount[1] >= 0

has_positive_amount(req) == IF req.amount = None THEN FALSE ELSE req.amount[1] > 0

has_no_amount(req) == req.amount = None

structure_validation(req) ==
    CASE req.transaction_type = "Deposit"    -> has_positive_amount(req)
      [] req.transaction_type = "Withdrawal" -> has_positive_amount(req)
      [] req.transaction_type = "Dispute"    -> has_no_amount(req)
      [] req.transaction_type = "Resolve"    -> has_no_amount(req)
      [] req.transaction_type = "Chargeback" -> has_no_amount(req)

\* Mutant: the Resolve arm of the dispatch calls chargeback.
handle_transaction_ResolveAsChargeback(L, req) ==
    CASE req.transaction_type = "Deposit"    -> deposit(L, req)
      [] req.transaction_type = "Withdrawal" -> withdraw(L, req)
      [] req.transaction_type = "Dispute"    -> dispute(L, req)
      [] req.transaction_type = "Resolve"    -> chargeback(L, req)
      [] req.transaction_type = "Chargeback" -> chargeback(L, req)

handle_transaction(L, req) ==
    CASE req.transaction_type = "Deposit"    -> deposit(L, req)
      [] req.transaction_type = "Withdrawal" -> withdraw(L, req)
      [] req.transaction_type = "Dispute"    -> dispute(L, req)
      [] req.transaction_type = "Resolve"    -> resolve(L, req)
      [] req.transaction_type = "Chargeback" -> chargeback(L, req)

\* ------------------------------------------------ scales of the amounts
\* Decimal::ZERO has scale 0.
ZeroScale == 0

\* Mutant: the scale of a sum is the sum of the scales (as for a product).
dec_add_scale_Sums(s1, s2) == s1 + s2

\* The scale of a + b and of a - b: the operand of the smaller scale is
\* brought to the larger one, which is the scale of the result.
dec_add_scale(s1, s2) == IF s1 >= s2 THEN s1 ELSE s2

\* The scales of the stored amounts after handle_transaction(req), S being
\* the scales before and amount_scale the scale of the request's amount:
\* every amount the handlers write is a sum or a difference of a stored
\* amount (Decimal::ZERO when there is none) and the request's or the
\* record's amount.
handle_transaction_scales(L, S, req, amount_scale) ==
    LET out == handle_transaction(L, req)
        c == req.client_id
        t == req.transaction_id
        existing == IF c \in DOMAIN S.available THEN S.available[c] ELSE ZeroScale
        existing_held == IF c \in DOMAIN S.held THEN S.held[c] ELSE ZeroScale
    IN  IF out.result # "Ok(true)" THEN S
        ELSE CASE req.transaction_type \in {"Deposit", "Withdrawal"} ->
                    [available |-> insert(S.available, c,
                                          dec_add_scale(existing, amount_scale)),
                     held |-> insert(S.held, c, existing_held),
                     amount |-> insert(S.amount, t, amount_scale)]
               [] req.transaction_type \in {"Dispute", "Resolve"} ->
                    [available |-> insert(S.available, c,
                                          dec_add_scale(existing, S.amount[t])),
                     held |-> insert(S.held, c,
                                     dec_add_scale(existing_held, S.amount[t])),
                     amount |-> S.amount]
               [] req.transaction_type = "Chargeback" ->
                    [available |-> S.available,
                     held |-> insert(S.held, c,
                                     dec_add_scale(existing_held, S.amount[t])),
                     amount |-> S.amount]

\* print_report up to its scale check: it panics when an account's
\* available or held has a scale above 4.
print_report(S) ==
    IF \E c \in DOMAIN S.available : S.available[c] > 4 \/ S.held[c] > 4
    THEN "panic" ELSE "Ok"

\* Mutant: the loop hands every request to handle_transaction.
process_request_NoFilter(L, req) == handle_transaction(L, req)

\* The body of main's loop for one request: the filter on
\* structure_validation, then handle_transaction on what passes it.
process_request(L, req) ==
    IF structure_validation(req) THEN handle_transaction(L, req)
    ELSE [ledger |-> L, result |-> "filtered"]

\* ------------------------------------------------- failing store calls
\* The manager holds its two stores as Box<dyn ..> trait objects whose
\* methods return Result<_, String>; every store call in a handler is
\* followed by `?`, which returns the Err to the caller of
\* handle_transaction at once.  The in-memory stores never return Err, so
\* the handlers above have no such branch.  The operators below are the
\* same handlers over a store one of whose methods returns Err: `failing`
\* names that method ("none" for a store that does not fail).  No handler
\* calls the same store method twice, so the name identifies the call.  A
\* call that returns Err is taken to leave its store as it was.

StoreCalls ==
    {"get_available", "get_held_amount", "get_locked_status",
     "set_available", "set_held_amount", "set_locked_status",
     "read_transaction", "write_transaction",
     "read_transaction_state", "write_transaction_state"}

Err(L) == [ledger |-> L, result |-> "Err"]

\* rollback = FALSE is the code.  rollback = TRUE undoes set_available when
\* write_transaction fails, which the code does not do.
deposit_FailingVariant(L, req, failing, rollback) ==
    IF failing = "read_transaction" THEN Err(L)
    ELSE IF is_duplicate_transaction_id(L, req.transaction_id) THEN Ok(L, FALSE)
    ELSE IF failing = "get_available" THEN Err(L)
    ELSE
    LET existing_amount == unwrap_or(get_available(L.accounts, req.client_id), 0)
    IN  IF req.amount = None THEN Panic(L)
        ELSE IF failing = "set_available" THEN Err(L)
        ELSE
        LET a1 == set_available(L.accounts, req.client_id,
                                existing_amount + req.amount[1])
        IN  IF failing = "write_transaction"
            THEN (IF rollback THEN Err(L)
                  ELSE Err(Ledger(a1.storage, L.history, L.state)))
            ELSE Ok(Ledger(a1.storage, write_transaction(L.history, req),
                           L.state), TRUE)

\* Mutant: a deposit whose write_transaction fails takes the amount back.
deposit_RollsBack(L, req, failing) ==
    deposit_FailingVariant(L, req, failing, TRUE)

deposit_Failing(L, req, failing) ==
    deposit_FailingVariant(L, req, failing, FALSE)

withdraw_Failing(L, req, failing) ==
    IF failing = "read_transaction" THEN Err(L)
    ELSE IF is_duplicate_transaction_id(L, req.transaction_id) THEN Ok(L, FALSE)
    ELSE IF failing = "get_locked_status" THEN Err(L)
    ELSE IF get_locked_status(L.accounts, req.client_id) = Some(TRUE)
    THEN Ok(L, FALSE)
    ELSE IF failing = "get_available" THEN Err(L)
    ELSE
    LET existing == get_available(L.accounts, req.client_id)
    IN  IF existing = None THEN Ok(L, FALSE)
        ELSE IF req.amount = None THEN Panic(L)
        ELSE IF existing[1] >= req.amount[1]
        THEN IF failing = "set_available" THEN Err(L)
             ELSE
             LET a1 == set_available(L.accounts, req.client_id,
                                     existing[1] - req.amount[1])
             IN  IF failing = "write_transaction"
                 THEN Err(Ledger(a1.storage, L.history, L.state))
                 ELSE Ok(Ledger(a1.storage, write_transaction(L.history, req),
                                L.state), TRUE)
        ELSE Ok(L, FALSE)

dispute_Failing(L, req, failing) ==
    IF failing = "get_available" THEN Err(L)
    ELSE IF failing = "read_transaction" THEN Err(L)
    ELSE
    LET existing_amount == unwrap_or(get_available(L.accounts, req.client_id), 0)
        found == read_transaction(L.history, req.transaction_id)
    IN  IF found = None THEN Ok(L, FALSE)
        ELSE IF found[1].client_id # req.client_id THEN Ok(L, FALSE)
        ELSE IF found[1].amount = None THEN Panic(L)
        ELSE IF failing = "read_transaction_state" THEN Err(L)
        ELSE
        LET disputed_amount == found[1].amount[1]
            disputed_transaction_state ==
                read_transaction_state(L.state, req.transaction_id)
        IN  IF is_some(disputed_transaction_state)
               /\ (disputed_transaction_state[1].held
                   \/ disputed_transaction_state[1].charged_back)
            THEN Ok(L, FALSE)
            ELSE IF failing = "set_available" THEN Err(L)
            ELSE
            LET a1 == set_available(L.accounts, req.client_id,
                                    existing_amount - disputed_amount)
                L1 == Ledger(a1.storage, L.history, L.state)
            IN  IF failing = "get_held_amount" THEN Err(L1)
                ELSE
                LET existing_held_amount ==
                        unwrap_or(get_held_amount(a1.storage, req.client_id), 0)
                IN  IF failing = "set_held_amount" THEN Err(L1)
                    ELSE
                    LET a2 == set_held_amount(a1.storage, req.client_id,
                                       existing_held_amount + disputed_amount)
                        L2 == Ledger(a2.storage, L.history, L.state)
                        new_transaction_state ==
                            IF is_some(disputed_transaction_state)
                            THEN [disputed_transaction_state[1]
                                     EXCEPT !.held = TRUE]
                            ELSE [TransactionStateDefault EXCEPT !.held = TRUE]
                    IN  IF failing = "write_transaction_state" THEN Err(L2)
                        ELSE Ok(Ledger(a2.storage, L.history,
                                       write_transaction_state(L.state,
                                           req.transaction_id,
                                           new_transaction_state)), TRUE)

resolve_Failing(L, req, failing) ==
    IF failing = "get_available" THEN Err(L)
    ELSE IF failing = "read_transaction" THEN Err(L)
    ELSE
    LET existing_amount == unwrap_or(get_available(L.accounts, req.client_id), 0)
        found == read_transaction(L.history, req.transaction_id)
    IN  IF found = None THEN Ok(L, FALSE)
        ELSE IF found[1].client_id # req.client_id THEN Ok(L, FALSE)
        ELSE IF found[1].amount = None THEN Panic(L)
        ELSE IF failing = "read_transaction_state" THEN Err(L)
        ELSE
        LET disputed_amount == found[1].amount[1]
            st == read_transaction_state(L.state, req.transaction_id)
        IN  IF st = None THEN Ok(L, FALSE)
            ELSE IF ~st[1].held \/ st[1].charged_back THEN Ok(L, FALSE)
            ELSE IF failing = "get_held_amount" THEN Err(L)
            ELSE
            LET held == get_held_amount(L.accounts, req.client_id)
            IN  IF held = None THEN Ok(L, FALSE)
                ELSE IF held[1] < disputed_amount THEN Panic(L)
                ELSE IF failing = "set_available" THEN Err(L)
                ELSE
                LET a1 == set_available(L.accounts, req.client_id,
                                        existing_amount + disputed_amount)
                    L1 == Ledger(a1.storage, L.history, L.state)
                IN  IF failing = "set_held_amount" THEN Err(L1)
                    ELSE
                    LET a2 == set_held_amount(a1.storage, req.client_id,
                                              held[1] - disputed_amount)
                        L2 == Ledger(a2.storage, L.history, L.state)
                    IN  IF failing = "write_transaction_state" THEN Err(L2)
                        ELSE Ok(Ledger(a2.storage, L.history,
                                       write_transaction_state(L.state,
                                           req.transaction_id,
                                           [st[1] EXCEPT !.held = FALSE])), TRUE)

chargeback_Failing(L, req, failing) ==
    IF failing = "read_transaction" THEN Err(L)
    ELSE
    LET found == read_transaction(L.history, req.transaction_id)
    IN  IF found = None THEN Ok(L, FALSE)
        ELSE IF found[1].client_id # req.client_id THEN Ok(L, FALSE)
        ELSE IF found[1].amount = None THEN Panic(L)
        ELSE IF failing = "read_transaction_state" THEN Err(L)
        ELSE
        LET disputed_amount == found[1].amount[1]
            st == read_transaction_state(L.state, req.transaction_id)
        IN  IF st = None THEN Ok(L, FALSE)
            ELSE IF ~st[1].held \/ st[1].charged_back THEN Ok(L, FALSE)
            ELSE IF failing = "get_held_amount" THEN Err(L)
            ELSE
            LET held == get_held_amount(L.accounts, req.client_id)
            IN  IF held = None THEN Ok(L, FALSE)
                ELSE IF held[1] < disputed_amount THEN Panic(L)
                ELSE IF failing = "set_held_amount" THEN Err(L)
                ELSE
                LET a1 == set_held_amount(L.accounts, req.client_id,
                                          held[1] - disputed_amount)
                    L1 == Ledger(a1.storage, L.history, L.state)
                IN  IF failing = "set_locked_status" THEN Err(L1)
                    ELSE
                    LET a2 == set_locked_status(a1.storage, req.client_id, TRUE)
                        L2 == Ledger(a2.storage, L.history, L.state)
                    IN  IF failing = "write_transaction_state" THEN Err(L2)
                        ELSE Ok(Ledger(a2.storage, L.history,
                                       write_transaction_state(L.state,
                                           req.transaction_id,
                                           [st[1] EXCEPT !.held = FALSE,
                                                         !.charged_back = TRUE])),
                                TRUE)

handle_transaction_Failing(L, req, failing) ==
    CASE req.transaction_type = "Deposit"    -> deposit_Failing(L, req, failing)
      [] req.transaction_type = "Withdrawal" -> withdraw_Failing(L, req, failing)
      [] req.transaction_type = "Dispute"    -> dispute_Failing(L, req, failing)
      [] req.transaction_type = "Resolve"    -> resolve_Failing(L, req, failing)
      [] req.transaction_type = "Chargeback" -> chargeback_Failing(L, req, failing)

\* ------------------------------------------------------------- state
VARIABLES
    accounts,     \* customer_account_provider.storage
    history,      \* transaction_history_provider.history
    state,        \* transaction_history_provider.state
    panicked,     \* TRUE once a handler has panicked: the process is gone
    call,         \* the last call of a function examined on its own:
                  \* [op, input, output]; the processing loop leaves it alone
    scales,       \* Decimal::scale() of every stored amount, where it is
                  \* followed: [available, held] by customer, [amount] by
                  \* transaction id
    failures      \* number of store calls that have returned Err

vars == <<accounts, history, state, panicked, call, scales, failures>>

Current == Ledger(accounts, history, state)

\* The requests that pass main's filter and reach handle_transaction.
ValidRequests == {req \in TransactionRequest : structure_validation(req)}

NoCall == [op |-> "none", input |-> None, output |-> None]

NoScales == [available |-> EmptyMap, held |-> EmptyMap, amount |-> EmptyMap]

Init ==
    /\ accounts = EmptyMap
    /\ history = EmptyMap
    /\ state = EmptyMap
    /\ panicked = FALSE
    /\ call = NoCall
    /\ scales = NoScales
    /\ failures = 0

\* One iteration of main's loop:
\* iterator.filter(structure_validation).for_each(handle_transaction(..).expect(..)).
\* A panic ends the process.
Handle(req) ==
    /\ ~panicked
    /\ LET out == process_request(Current, req)
       IN  /\ accounts' = out.ledger.accounts
           /\ history' = out.ledger.history
           /\ state' = out.ledger.state
           /\ panicked' = (out.result = "panic")
    /\ UNCHANGED <<call, scales, failures>>

\* A request the filter drops.
Filtered ==
    \E req \in TransactionRequest : ~structure_validation(req) /\ Handle(req)

Deposit ==
    \E req \in TransactionRequest :
        req.transaction_type = "Deposit" /\ structure_validation(req) /\ Handle(req)

Withdrawal ==
    \E req \in TransactionRequest :
        req.transaction_type = "Withdrawal" /\ structure_validation(req) /\ Handle(req)

Dispute ==
    \E req \in TransactionRequest :
        req.transaction_type = "Dispute" /\ structure_validation(req) /\ Handle(req)

Resolve ==
    \E req \in TransactionRequest :
        req.transaction_type = "Resolve" /\ structure_validation(req) /\ Handle(req)

Chargeback ==
    \E req \in TransactionRequest :
        req.transaction_type = "Chargeback" /\ structure_validation(req) /\ Handle(req)

Next == Filtered \/ Deposit \/ Withdrawal \/ Dispute \/ Resolve \/ Chargeback

Spec == Init /\ [][Next]_vars

\* structure_validation examined on its own: any parsed request is given
\* to it and its answer is kept; the stores are not involved.
Validate ==
    \E req \in TransactionRequest :
        /\ call' = [op |-> "structure_validation",
                    input |-> req,
                    output |-> structure_validation(req)]
        /\ UNCHANGED <<accounts, history, state, panicked, scales, failures>>

NextValidation == Validate

SpecValidation == Init /\ [][NextValidation]_vars

\* The reader examined on its own: one record of the input file goes
\* through the closure of read and the result is kept.  The closure keeps
\* nothing from one record to the next, so a behaviour examines one record.
ReadRecord ==
    /\ call = NoCall
    /\ \E record \in RawRecords :
          call' = [op |-> "read_record",
                   input |-> record,
                   output |-> read_record(record)]
    /\ UNCHANGED <<accounts, history, state, panicked, scales, failures>>

NextReader == ReadRecord

SpecReader == Init /\ [][NextReader]_vars

\* The requests whose amounts' scales are followed: those that pass
\* main's filter, of the first NumDirectCustomers customers, with amounts
\* up to MaxScaledAmount (the value of an amount only decides which branch
\* a handler takes; the scale of what it writes depends on scales alone).
ScaledRequests ==
    {req \in ValidRequests :
        /\ req.client_id <= NumDirectCustomers
        /\ req.amount # None => req.amount[1] <= MaxScaledAmount}

\* One iteration of main's loop with the scale of every amount followed:
\* the request's amount comes from the reader with at most enforced_scale
\* fractional digits.
HandleScaled ==
    \E req \in ScaledRequests, amount_scale \in 0..enforced_scale :
        /\ ~panicked
        /\ LET out == process_request(Current, req)
           IN  /\ accounts' = out.ledger.accounts
               /\ history' = out.ledger.history
               /\ state' = out.ledger.state
               /\ panicked' = (out.result = "panic")
        /\ scales' = handle_transaction_scales(Current, scales, req, amount_scale)
        /\ UNCHANGED <<call, failures>>

NextScaled == HandleScaled

SpecScaled == Init /\ [][NextScaled]_vars

\* The requests of the direct calls: any parsed request of the first
\* NumDirectCustomers customers.
DirectRequests ==
    {req \in TransactionRequest : req.client_id <= NumDirectCustomers}

\* handle_transaction called as the public method it is, without main's
\* filter in front of it: any parsed request is handled.
Direct ==
    \E req \in DirectRequests :
        /\ ~panicked
        /\ LET out == handle_transaction(Current, req)
           IN  /\ accounts' = out.ledger.accounts
               /\ history' = out.ledger.history
               /\ state' = out.ledger.state
               /\ panicked' = (out.result = "panic")
        /\ UNCHANGED <<call, scales, failures>>

NextDirect == Direct

SpecDirect == Init /\ [][NextDirect]_vars

\* handle_transaction over stores that can fail, called by a caller that
\* goes on after an Err (the trait's contract; main ends on the first Err).
\* Structurally valid requests of the first NumDirectCustomers customers;
\* in each call at most one store method fails, at most MaxFailures calls
\* meet a failure.
FailingRequests ==
    {req \in ValidRequests : req.client_id <= NumDirectCustomers}

HandleFailing(req, failing) ==
    /\ ~panicked
    /\ LET out == handle_transaction_Failing(Current, req, failing)
       IN  /\ accounts' = out.ledger.accounts
           /\ history' = out.ledger.history
           /\ state' = out.ledger.state
           /\ panicked' = (out.result = "panic")
           /\ failures' = IF out.result = "Err" THEN failures + 1 ELSE failures
           /\ failures' <= MaxFailures
    /\ UNCHANGED <<call, scales>>

StoreWorks == \E req \in FailingRequests : HandleFailing(req, "none")

StoreFails ==
    \E req \in FailingRequests : \E failing \in StoreCalls :
        /\ handle_transaction_Failing(Current, req, failing).result = "Err"
        /\ HandleFailing(req, failing)

NextFailing == StoreWorks \/ StoreFails

SpecFailing == Init /\ [][NextFailing]_vars

\* ------------------------------------------------- derived quantities
Applied(out) == out.result = "Ok(true)"
Skipped(out) == out.result = "Ok(false)"

\* A request that is fully skipped: Ok(false) and the ledger as it was.
SkippedUnchanged(L, out) == Skipped(out) /\ out.ledger = L

IsDepositOrWithdrawal(req) == req.transaction_type \in {"Deposit", "Withdrawal"}

RECURSIVE SumAmounts(_, _)
SumAmounts(h, ids) ==
    IF ids = {} THEN 0
    ELSE LET t == CHOOSE x \in ids : TRUE
         IN  h[t].amount[1] + SumAmounts(h, ids \ {t})

\* The recorded transactions of a customer whose disposition has held = true.
HeldTransactions(L, c) ==
    {t \in DOMAIN L.history :
        /\ L.history[t].client_id = c
        /\ t \in DOMAIN L.state
        /\ L.state[t].held}

\* ----------------------------------------------------------- claims

\* C1: in every reachable state, for every customer the account's held
\* amount equals the sum of the amounts of that customer's recorded
\* transactions whose disposition has held = true, and it is never negative
\* (a customer without an account has no held transaction).
Inv_C1_HeldIsSumOfHeldTransactions ==
    \A c \in CustomerIds :
        IF c \in DOMAIN accounts
        THEN /\ accounts[c].held = SumAmounts(history, HeldTransactions(Current, c))
             /\ accounts[c].held >= 0
        ELSE HeldTransactions(Current, c) = {}

\* A customer with two transactions on hold at once and a third one whose
\* dispute is over (resolved or charged back).
Wit_C1_TwoHeldAndOneReleased ==
    \E c \in DOMAIN accounts :
        /\ Cardinality(HeldTransactions(Current, c)) >= 2
        /\ \E t \in DOMAIN state : history[t].client_id = c /\ ~state[t].held

\* Handling r1 then r2 and handling r2 then r1 give every request the same
\* outcome and leave the same ledger.
Commute(L, r1, r2) ==
    LET a1 == handle_transaction(L, r1)
        b2 == handle_transaction(L, r2)
        a2 == handle_transaction(a1.ledger, r2)
        b1 == handle_transaction(b2.ledger, r1)
    IN  /\ a1.result = b1.result
        /\ a2.result = b2.result
        /\ a2.ledger = b1.ledger

\* Two Deposit/Withdrawal requests that carry the same transaction id.
SameNewId(r1, r2) ==
    /\ IsDepositOrWithdrawal(r1)
    /\ IsDepositOrWithdrawal(r2)
    /\ r1.transaction_id = r2.transaction_id

\* C2 as stated: only per-customer ordering matters.  Two sequences with
\* the same per-customer order differ by exchanges of neighbouring requests
\* of different customers, so the claim says that after any common prefix
\* any two requests of different customers can be handled in either order
\* (Commute is symmetric, so each pair is taken once, smaller client first).
Orig_C2_AnyTwoCustomersCommute ==
    \A r1, r2 \in ValidRequests :
        r1.client_id < r2.client_id => Commute(Current, r1, r2)

\* C2 amended: requests of different customers can be handled in either
\* order unless both are Deposits/Withdrawals carrying the same
\* transaction id (the duplicate-id check is global, so the first of the
\* two wins the id).
Inv_C2_CustomersCommuteUnlessSameNewId ==
    \A r1, r2 \in ValidRequests :
        (r1.client_id < r2.client_id /\ ~SameNewId(r1, r2))
            => Commute(Current, r1, r2)

\* Both customers have an account and a transaction under dispute, and two
\* requests of different customers that name the same transaction id are
\* about to be handled: a Deposit that is applied and a Dispute of that id.
Wit_C2_CrossCustomerSameId ==
    /\ \A c \in CustomerIds :
          c \in DOMAIN accounts /\ HeldTransactions(Current, c) # {}
    /\ \E r1, r2 \in ValidRequests :
          /\ r1.client_id # r2.client_id
          /\ r1.transaction_id = r2.transaction_id
          /\ r1.transaction_type = "Deposit"
          /\ r2.transaction_type = "Dispute"
          /\ Applied(handle_transaction(Current, r1))

\* C3 as stated: a Deposit/Withdrawal submitted a second time (here after
\* one other request) is skipped and changes nothing.
Orig_C3_SecondSubmissionAlwaysSkipped ==
    \A r \in ValidRequests : \A mid \in ValidRequests :
        IsDepositOrWithdrawal(r) =>
            LET o1 == handle_transaction(Current, r)
                o2 == handle_transaction(o1.ledger, mid)
                o3 == handle_transaction(o2.ledger, r)
            IN  SkippedUnchanged(o2.ledger, o3)

\* C3 amended: once a Deposit/Withdrawal has been applied, a request with
\* the same type and transaction id is skipped and changes nothing, both
\* when it follows at once and in every later state (where the applied
\* request is the stored record of that type and id).
Inv_C3_ResubmissionOfAppliedIsSkipped ==
    \A r1, r2 \in ValidRequests :
        (/\ IsDepositOrWithdrawal(r1)
         /\ r2.transaction_type = r1.transaction_type
         /\ r2.transaction_id = r1.transaction_id)
        => /\ LET o1 == handle_transaction(Current, r1)
              IN  Applied(o1) =>
                    SkippedUnchanged(o1.ledger, handle_transaction(o1.ledger, r2))
           /\ (/\ r1.transaction_id \in DOMAIN history
               /\ history[r1.transaction_id].transaction_type = r1.transaction_type)
              => SkippedUnchanged(Current, handle_transaction(Current, r2))

\* A Withdrawal is recorded and the same Withdrawal would now succeed if the
\* id were new: the account is unlocked and has the funds.
Wit_C3_RecordedWithdrawalAffordableAgain ==
    \E t \in DOMAIN history :
        /\ history[t].transaction_type = "Withdrawal"
        /\ history[t].client_id \in DOMAIN accounts
        /\ ~accounts[history[t].client_id].locked
        /\ accounts[history[t].client_id].available >= history[t].amount[1]

\* C4: transaction records are write-once.  A stored record is never
\* changed or removed by a step, and in every reachable state every
\* Deposit/Withdrawal carrying a stored id (any client, either type) is
\* skipped, so write_transaction is never reached for that id again.
Prop_C4_RecordsAreWriteOnce ==
    /\ [][\A t \in DOMAIN history :
            t \in DOMAIN history' /\ history'[t] = history[t]]_vars
    /\ [](\A req \in ValidRequests :
            (IsDepositOrWithdrawal(req) /\ req.transaction_id \in DOMAIN history)
                => Skipped(handle_transaction(Current, req)))

\* A record of customer 1 is stored while customer 2 has an account with
\* funds, so a Deposit or Withdrawal of customer 2 under that id would
\* otherwise be applied.
Wit_C4_StoredIdReusableByOtherCustomer ==
    \E t \in DOMAIN history : \E c \in DOMAIN accounts :
        /\ history[t].client_id # c
        /\ ~accounts[c].locked
        /\ accounts[c].available >= MaxAmount

\* C5: a Withdrawal is never applied when the customer's account is locked
\* or when the amount is greater than the available funds; it is skipped
\* and the accounts, records and dispositions stay as they were.
Inv_C5_WithdrawalNeedsUnlockedAndFunds ==
    \A req \in ValidRequests :
        (/\ req.transaction_type = "Withdrawal"
         /\ req.client_id \in DOMAIN accounts
         /\ \/ accounts[req.client_id].locked
            \/ req.amount[1] > accounts[req.client_id].available)
        => SkippedUnchanged(Current, handle_transaction(Current, req))

\* A locked account that has the funds, and a transaction id not yet used:
\* only the lock stops the withdrawal.
Wit_C5_LockedWithFundsAndFreshId ==
    \E req \in ValidRequests :
        /\ req.transaction_type = "Withdrawal"
        /\ req.transaction_id \notin DOMAIN history
        /\ req.client_id \in DOMAIN accounts
        /\ accounts[req.client_id].locked
        /\ accounts[req.client_id].available >= req.amount[1]

\* C6: lock permanence.  No step unlocks or removes a locked account, and
\* in every reachable state every Withdrawal for a locked customer is
\* skipped.
Prop_C6_LockIsPermanent ==
    /\ [][\A c \in DOMAIN accounts :
            accounts[c].locked => (c \in DOMAIN accounts' /\ accounts'[c].locked)]_vars
    /\ [](\A req \in ValidRequests :
            (/\ req.transaction_type = "Withdrawal"
             /\ req.client_id \in DOMAIN accounts
             /\ accounts[req.client_id].locked)
            => Skipped(handle_transaction(Current, req)))

\* A locked account that still has available funds and an undisputed
\* Deposit, while a transaction id is unused: requests of every type can
\* still be applied to it, and only the lock stops a withdrawal.
Wit_C6_LockedAccountWithFunds ==
    \E c \in DOMAIN accounts :
        /\ accounts[c].locked
        /\ accounts[c].available > 0
        /\ \E t \in DOMAIN history :
              /\ history[t].client_id = c
              /\ history[t].transaction_type = "Deposit"
              /\ t \notin DOMAIN state
        /\ \E t \in TransactionIds : t \notin DOMAIN history

\* C7: a Dispute, Resolve or Chargeback whose transaction id has no stored
\* record is skipped and changes no account, record or disposition.
Inv_C7_UnknownTransactionIsSkipped ==
    \A req \in ValidRequests :
        (/\ req.transaction_type \in {"Dispute", "Resolve", "Chargeback"}
         /\ req.transaction_id \notin DOMAIN history)
        => SkippedUnchanged(Current, handle_transaction(Current, req))

\* An id without a record, named by a customer who has an account with
\* funds on hold (so there is something a wrong Resolve or Chargeback
\* could release), and named by a customer who has no account at all.
Wit_C7_UnknownIdWithFundsOnHold ==
    \E t \in TransactionIds :
        /\ t \notin DOMAIN history
        /\ \E c \in DOMAIN accounts : accounts[c].held > 0
        /\ \E c \in CustomerIds : c \notin DOMAIN accounts

\* The request of another type for the same client and transaction.
Follow(req, type) == [req EXCEPT !.transaction_type = type]

\* C8: from any reachable state, an applied Dispute immediately followed
\* by a Resolve of the same transaction by the same client is applied and
\* leaves the customer's available, held and locked as before the Dispute.
Inv_C8_DisputeResolveRoundTrip ==
    \A req \in ValidRequests :
        req.transaction_type = "Dispute" =>
            LET d == handle_transaction(Current, req)
                r == handle_transaction(d.ledger, Follow(req, "Resolve"))
                c == req.client_id
            IN  Applied(d) =>
                    /\ Applied(r)
                    /\ get_available(r.ledger.accounts, c) = get_available(accounts, c)
                    /\ get_held_amount(r.ledger.accounts, c) = get_held_amount(accounts, c)
                    /\ get_locked_status(r.ledger.accounts, c)
                          = get_locked_status(accounts, c)

\* A Dispute that is applied and drives available below zero, on an
\* account that already has other funds on hold.
Wit_C8_DisputeBelowZero ==
    \E req \in ValidRequests :
        /\ req.transaction_type = "Dispute"
        /\ Applied(handle_transaction(Current, req))
        /\ accounts[req.client_id].held > 0
        /\ accounts[req.client_id].available < history[req.transaction_id].amount[1]

\* C9: from any reachable state, an applied Dispute immediately followed
\* by a Chargeback of the same transaction by the same client is applied,
\* leaves available at its post-dispute value, lowers held by the disputed
\* amount, locks the account, and afterwards every Withdrawal for that
\* customer is skipped, also after one further request of any kind.
Inv_C9_DisputeThenChargeback ==
    \A req \in ValidRequests :
        req.transaction_type = "Dispute" =>
            LET d == handle_transaction(Current, req)
                cb == handle_transaction(d.ledger, Follow(req, "Chargeback"))
                c == req.client_id
            IN  Applied(d) =>
                    /\ Applied(cb)
                    /\ cb.ledger.accounts[c].available = d.ledger.accounts[c].available
                    /\ cb.ledger.accounts[c].held =
                          d.ledger.accounts[c].held
                            - history[req.transaction_id].amount[1]
                    /\ cb.ledger.accounts[c].locked
                    /\ \A w \in ValidRequests :
                          (w.transaction_type = "Withdrawal" /\ w.client_id = c)
                          => /\ Skipped(handle_transaction(cb.ledger, w))
                             /\ \A mid \in ValidRequests :
                                   Skipped(handle_transaction(
                                       handle_transaction(cb.ledger, mid).ledger, w))

\* A Dispute is applicable on an unlocked account that keeps funds after
\* it, and an id is still unused: only the lock set by the chargeback
\* stops a later withdrawal.
Wit_C9_ChargebackLeavesFunds ==
    \E req \in ValidRequests :
        /\ req.transaction_type = "Dispute"
        /\ Applied(handle_transaction(Current, req))
        /\ ~accounts[req.client_id].locked
        /\ accounts[req.client_id].available > history[req.transaction_id].amount[1]
        /\ \E t \in TransactionIds : t \notin DOMAIN history

\* The writes an applied request of each type makes (its handler's calls
\* of set_available, set_held_amount, set_locked_status, write_transaction
\* and write_transaction_state), as a relation between the ledger before
\* and the ledger after.
AllWritesMade(L, req, M) ==
    LET c == req.client_id
        t == req.transaction_id
        before == unwrap_or(get_available(L.accounts, c), 0)
        held == unwrap_or(get_held_amount(L.accounts, c), 0)
    IN  CASE req.transaction_type = "Deposit" ->
                /\ get_available(M.accounts, c) = Some(before + req.amount[1])
                /\ read_transaction(M.history, t) = Some(req)
          [] req.transaction_type = "Withdrawal" ->
                /\ get_available(M.accounts, c) = Some(before - req.amount[1])
                /\ read_transaction(M.history, t) = Some(req)
          [] req.transaction_type = "Dispute" ->
                /\ get_available(M.accounts, c) = Some(before - L.history[t].amount[1])
                /\ get_held_amount(M.accounts, c) = Some(held + L.history[t].amount[1])
                /\ read_transaction_state(M.state, t)
                      = Some([held |-> TRUE, charged_back |-> FALSE])
          [] req.transaction_type = "Resolve" ->
                /\ get_available(M.accounts, c) = Some(before + L.history[t].amount[1])
                /\ get_held_amount(M.accounts, c) = Some(held - L.history[t].amount[1])
                /\ read_transaction_state(M.state, t)
                      = Some([held |-> FALSE, charged_back |-> FALSE])
          [] req.transaction_type = "Chargeback" ->
                /\ get_held_amount(M.accounts, c) = Some(held - L.history[t].amount[1])
                /\ get_locked_status(M.accounts, c) = Some(TRUE)
                /\ read_transaction_state(M.state, t)
                      = Some([held |-> FALSE, charged_back |-> TRUE])

\* C10: no partial application.  Every request handled in a reachable
\* state returns Ok(true) or Ok(false); when it returns Ok(false) the
\* accounts, records and dispositions are exactly as they were, and when
\* it returns Ok(true) every write of its handler has been made.
Inv_C10_AppliedFullyOrNotAtAll ==
    \A req \in ValidRequests :
        LET out == handle_transaction(Current, req)
        IN  /\ Applied(out) \/ Skipped(out)
            /\ Skipped(out) => out.ledger = Current
            /\ Applied(out) => AllWritesMade(Current, req, out.ledger)

\* A state from which requests of all five types are applied and requests
\* of all five types are skipped.
Wit_C10_EveryTypeAppliedAndSkipped ==
    \A type \in TransactionType :
        /\ \E req \in ValidRequests :
              /\ req.transaction_type = type
              /\ Applied(handle_transaction(Current, req))
        /\ \E req \in ValidRequests :
              /\ req.transaction_type = type
              /\ Skipped(handle_transaction(Current, req))

IsDisputeStep(req) == req.transaction_type \in {"Dispute", "Resolve", "Chargeback"}

\* The request names a stored record that belongs to another client.
Spoofed(L, req) ==
    /\ req.transaction_id \in DOMAIN L.history
    /\ L.history[req.transaction_id].client_id # req.client_id

\* C11: anti-spoofing.  A Dispute, Resolve or Chargeback whose client id
\* differs from the client_id of the stored record for its transaction id
\* returns Ok(false) and leaves every account (the requester's and the
\* owner's), every record and every disposition as it was.
Inv_C11_SpoofedRequestIsSkipped ==
    \A req \in ValidRequests :
        (IsDisputeStep(req) /\ Spoofed(Current, req))
            => SkippedUnchanged(Current, handle_transaction(Current, req))

\* A transaction on hold and a recorded transaction that was never
\* disputed, while another customer has an account whose held funds would
\* cover the held transaction: that customer's Dispute of the second and
\* Resolve or Chargeback of the first would go through but for the
\* client-id comparison.
Wit_C11_OtherCustomerCouldCoverSpoof ==
    \E t \in DOMAIN state, u \in DOMAIN history, c \in DOMAIN accounts :
        /\ state[t].held
        /\ u \notin DOMAIN state
        /\ c # history[t].client_id
        /\ c # history[u].client_id
        /\ accounts[c].held >= history[t].amount[1]

\* The transaction has a disposition with held = true or charged_back = true.
HeldOrChargedBack(L, t) ==
    /\ t \in DOMAIN L.state
    /\ (L.state[t].held \/ L.state[t].charged_back)

\* C12: a Dispute of a transaction whose disposition already has
\* held = true or charged_back = true returns Ok(false) and changes
\* nothing, so a transaction on hold is not put on hold a second time.
Inv_C12_DisputeOfHeldOrChargedBackIsSkipped ==
    \A req \in ValidRequests :
        (req.transaction_type = "Dispute"
         /\ HeldOrChargedBack(Current, req.transaction_id))
            => SkippedUnchanged(Current, handle_transaction(Current, req))

\* A transaction on hold and a charged-back transaction of two different
\* customers: a Dispute by the owner meets each branch of the check.
Wit_C12_HeldAndChargedBackOfTwoCustomers ==
    \E t, u \in DOMAIN state :
        /\ state[t].held
        /\ state[u].charged_back
        /\ history[t].client_id # history[u].client_id

\* The transaction is under dispute: disposition present, held, not charged back.
UnderDispute(L, t) ==
    /\ t \in DOMAIN L.state
    /\ L.state[t].held
    /\ ~L.state[t].charged_back

\* C13: a Resolve or a Chargeback of a transaction that is not under
\* dispute (no disposition, held = false, or charged_back = true) returns
\* Ok(false) and changes nothing.
Inv_C13_ResolveAndChargebackNeedOpenDispute ==
    \A req \in ValidRequests :
        (req.transaction_type \in {"Resolve", "Chargeback"}
         /\ ~UnderDispute(Current, req.transaction_id))
            => SkippedUnchanged(Current, handle_transaction(Current, req))

\* The three cases at once: a recorded transaction never disputed, one
\* whose dispute was resolved, and one charged back.
Wit_C13_NeverDisputedResolvedAndChargedBack ==
    \E t, u, v \in DOMAIN history :
        /\ t \notin DOMAIN state
        /\ u \in DOMAIN state /\ ~state[u].held /\ ~state[u].charged_back
        /\ v \in DOMAIN state /\ state[v].charged_back

\* C14: charged_back is terminal.  From every reachable state, whatever
\* request is handled next, a disposition with charged_back = true is
\* still there with charged_back = true, and a Dispute, Resolve or
\* Chargeback of that transaction is not applied.
Inv_C14_ChargedBackIsTerminal ==
    \A req \in ValidRequests :
        LET out == handle_transaction(Current, req)
        IN  \A t \in DOMAIN state :
                state[t].charged_back =>
                    /\ t \in DOMAIN out.ledger.state
                    /\ out.ledger.state[t].charged_back
                    /\ (IsDisputeStep(req) /\ req.transaction_id = t)
                          => ~Applied(out)

\* A charged-back transaction whose owner has since had another
\* transaction put on hold.
Wit_C14_ChargedBackThenAnotherDispute ==
    \E t, u \in DOMAIN state :
        /\ state[t].charged_back
        /\ state[u].held
        /\ history[t].client_id = history[u].client_id

\* C15: in every reachable state no disposition has both held = true and
\* charged_back = true.
Inv_C15_NeverHeldAndChargedBack ==
    \A t \in DOMAIN state : ~(state[t].held /\ state[t].charged_back)

\* Two transactions charged back and a third on hold.
Wit_C15_TwoChargedBackOneHeld ==
    \E t, u, v \in DOMAIN state :
        /\ t # u
        /\ state[t].charged_back
        /\ state[u].charged_back
        /\ state[v].held

\* C16: every stored record is a Deposit or a Withdrawal (stored under its
\* own id); handling a request changes the records only when it is an
\* applied Deposit or Withdrawal, which adds the request under an id that
\* had no record; a Dispute, Resolve or Chargeback and a skipped Deposit or
\* Withdrawal leave the records as they were.
Inv_C16_OnlyAppliedDepositsAndWithdrawalsStored ==
    /\ \A t \in DOMAIN history :
          /\ IsDepositOrWithdrawal(history[t])
          /\ history[t].transaction_id = t
    /\ \A req \in ValidRequests :
          LET out == handle_transaction(Current, req)
          IN  IF IsDepositOrWithdrawal(req) /\ Applied(out)
              THEN /\ req.transaction_id \notin DOMAIN history
                   /\ out.ledger.history = insert(history, req.transaction_id, req)
              ELSE out.ledger.history = history

\* A Deposit record and a Withdrawal record are stored, a dispute has been
\* applied, and one id is still free.
Wit_C16_BothRecordTypesAndADispute ==
    /\ \E t, u \in DOMAIN history :
          /\ history[t].transaction_type = "Deposit"
          /\ history[u].transaction_type = "Withdrawal"
    /\ DOMAIN state # {}
    /\ DOMAIN history # TransactionIds

\* The customers with an applied Deposit: those of the Deposit records.
Depositors(L) ==
    {L.history[t].client_id :
        t \in {x \in DOMAIN L.history : L.history[x].transaction_type = "Deposit"}}

\* C17: account lifecycle.  The customers with an account are exactly the
\* customers with an applied Deposit; handling a request never removes an
\* account, and only a Deposit can add one.
Inv_C17_AccountIffDeposited ==
    /\ DOMAIN accounts = Depositors(Current)
    /\ \A req \in ValidRequests :
          LET out == handle_transaction(Current, req)
          IN  /\ DOMAIN accounts \subseteq DOMAIN out.ledger.accounts
              /\ req.transaction_type # "Deposit"
                    => DOMAIN out.ledger.accounts = DOMAIN accounts

\* One customer has an account, with a Withdrawal and a dispute behind it,
\* and another customer still has none.
Wit_C17_OneCustomerStillWithoutAccount ==
    /\ DOMAIN accounts # {}
    /\ DOMAIN accounts # CustomerIds
    /\ \E t \in DOMAIN history : history[t].transaction_type = "Withdrawal"
    /\ DOMAIN state # {}

\* C18: structure_validation returns true exactly when the request is a
\* Deposit or Withdrawal with an amount present and greater than zero, or a
\* Dispute, Resolve or Chargeback without an amount; the call takes the
\* request alone and the stores are as they were before it.
Inv_C18_StructureValidationTruthTable ==
    call.op = "structure_validation" =>
        LET req == call.input
        IN  /\ call.output =
                  (\/ /\ IsDepositOrWithdrawal(req)
                      /\ req.amount # None
                      /\ req.amount[1] > 0
                   \/ /\ IsDisputeStep(req)
                      /\ req.amount = None)
            /\ Current = EmptyLedger
            /\ ~panicked

\* The boundary case: a Deposit with amount zero was given and refused.
Wit_C18_ZeroDepositRefused ==
    /\ call.op = "structure_validation"
    /\ call.input.transaction_type = "Deposit"
    /\ call.input.amount = Some(0)
    /\ call.output = FALSE

\* The malformed requests as the claim lists them: a Deposit or Withdrawal
\* whose amount is missing, zero or negative, or a Dispute, Resolve or
\* Chargeback that carries an amount.
Malformed(req) ==
    \/ /\ IsDepositOrWithdrawal(req)
       /\ (req.amount = None \/ req.amount[1] <= 0)
    \/ /\ IsDisputeStep(req)
       /\ req.amount # None

\* C19: a malformed request fails structure_validation, is dropped by the
\* loop before handle_transaction is called, and leaves every account,
\* record and disposition as it was.
Inv_C19_MalformedRequestIsDropped ==
    \A req \in TransactionRequest :
        Malformed(req) =>
            /\ ~structure_validation(req)
            /\ process_request(Current, req)
                  = [ledger |-> Current, result |-> "filtered"]

\* A state where dropping matters: handle_transaction itself would apply a
\* Dispute that carries an amount, would apply a Withdrawal of a negative
\* amount, and would panic on a Deposit without an amount.
Wit_C19_HandlerWouldActOnMalformed ==
    /\ \E req \in TransactionRequest :
          /\ req.transaction_type = "Dispute"
          /\ req.amount # None
          /\ Applied(handle_transaction(Current, req))
    /\ \E req \in TransactionRequest :
          /\ req.transaction_type = "Withdrawal"
          /\ req.amount = Some(-1)
          /\ Applied(handle_transaction(Current, req))
    /\ \E req \in TransactionRequest :
          /\ req.transaction_type = "Deposit"
          /\ req.amount = None
          /\ handle_transaction(Current, req).result = "panic"

\* C20: a Deposit whose transaction id has no stored record is applied.
\* The customer's available becomes the previous available plus the
\* amount, held and locked staying as they were; a customer without an
\* account gets one with available = amount, held = 0, locked = false; the
\* request is stored as the record for its id; nothing else changes.
Inv_C20_DepositWithNewIdIsApplied ==
    \A req \in ValidRequests :
        (req.transaction_type = "Deposit"
         /\ req.transaction_id \notin DOMAIN history)
            => LET out == handle_transaction(Current, req)
                   c == req.client_id
                   amount == req.amount[1]
               IN  /\ Applied(out)
                   /\ out.ledger.accounts =
                        IF c \in DOMAIN accounts
                        THEN [accounts EXCEPT ![c].available = @ + amount]
                        ELSE insert(accounts, c,
                                    CustomerAccountNew(amount, 0, FALSE))
                   /\ out.ledger.history = insert(history, req.transaction_id, req)
                   /\ out.ledger.state = state

\* An id is free while one customer has a locked account with funds on
\* hold and a negative available, and another customer has no account.
Wit_C20_LockedOverdrawnAndNewCustomer ==
    /\ DOMAIN history # TransactionIds
    /\ DOMAIN accounts # CustomerIds
    /\ \E c \in DOMAIN accounts :
          /\ accounts[c].locked
          /\ accounts[c].held > 0
          /\ accounts[c].available < 0

\* C21: a Withdrawal under a new id, for an existing unlocked account
\* whose available covers the amount (equality included), is applied:
\* available goes down by exactly the amount, held and locked stay, the
\* request is stored as the record, nothing else changes; and no applied
\* Withdrawal leaves available below zero.
Inv_C21_CoveredWithdrawalIsApplied ==
    \A req \in ValidRequests :
        req.transaction_type = "Withdrawal" =>
            LET out == handle_transaction(Current, req)
                c == req.client_id
                amount == req.amount[1]
            IN  /\ (/\ req.transaction_id \notin DOMAIN history
                    /\ c \in DOMAIN accounts
                    /\ ~accounts[c].locked
                    /\ accounts[c].available >= amount)
                      => /\ Applied(out)
                         /\ out.ledger.accounts =
                              [accounts EXCEPT ![c].available = @ - amount]
                         /\ out.ledger.history =
                              insert(history, req.transaction_id, req)
                         /\ out.ledger.state = state
                /\ Applied(out) => out.ledger.accounts[c].available >= 0

\* An unlocked account with funds on hold whose available is exactly the
\* largest amount a request can carry, and an id still free: the
\* Withdrawal of the whole available amount can be made.
Wit_C21_WholeAvailableCanBeWithdrawn ==
    /\ DOMAIN history # TransactionIds
    /\ \E c \in DOMAIN accounts :
          /\ ~accounts[c].locked
          /\ accounts[c].held > 0
          /\ accounts[c].available = MaxAmount

\* C22: a Withdrawal for a customer without an account returns Ok(false),
\* creates no account and stores no record.
Inv_C22_WithdrawalWithoutAccountIsSkipped ==
    \A req \in ValidRequests :
        (req.transaction_type = "Withdrawal"
         /\ req.client_id \notin DOMAIN accounts)
            => SkippedUnchanged(Current, handle_transaction(Current, req))

\* A customer without an account while an id is free (the Withdrawal is
\* not a duplicate) and the other customer's account is in use.
Wit_C22_NoAccountAndFreeId ==
    /\ DOMAIN accounts # CustomerIds
    /\ DOMAIN history # TransactionIds
    /\ \E c \in DOMAIN accounts : accounts[c].available > 0

\* The Dispute can be applied: record found, client matches, disposition
\* neither held nor charged back.
Disputable(L, req) ==
    /\ req.transaction_id \in DOMAIN L.history
    /\ L.history[req.transaction_id].client_id = req.client_id
    /\ ~HeldOrChargedBack(L, req.transaction_id)

\* C23: a Dispute of a recorded transaction of amount a, by its owner,
\* with the disposition not held and not charged back, is applied whatever
\* the available funds and the lock: available becomes available - a,
\* held becomes held + a, locked stays, the disposition gets held = true
\* with charged_back as it was, records are untouched.
Inv_C23_DisputeMovesAmountToHeld ==
    \A req \in ValidRequests :
        (req.transaction_type = "Dispute" /\ Disputable(Current, req))
            => LET out == handle_transaction(Current, req)
                   c == req.client_id
                   t == req.transaction_id
                   a == history[t].amount[1]
               IN  /\ Applied(out)
                   /\ c \in DOMAIN accounts
                   /\ out.ledger.accounts =
                        [accounts EXCEPT ![c].available = @ - a,
                                         ![c].held = @ + a]
                   /\ out.ledger.history = history
                   /\ out.ledger.state =
                        insert(state, t,
                               [held |-> TRUE,
                                charged_back |->
                                    IF t \in DOMAIN state
                                    THEN state[t].charged_back ELSE FALSE])

\* A locked account whose owner can dispute a transaction of a larger
\* amount than the available funds, and can dispute again one whose
\* earlier dispute was resolved.
Wit_C23_LockedOverdraftAndRedispute ==
    \E t, u \in DOMAIN history :
        /\ history[t].client_id = history[u].client_id
        /\ accounts[history[t].client_id].locked
        /\ t \notin DOMAIN state
        /\ history[t].amount[1] > accounts[history[t].client_id].available
        /\ u \in DOMAIN state /\ ~state[u].held /\ ~state[u].charged_back

\* C24: handling a request of client c leaves every other customer's
\* account as it was (and creates none for them), and leaves the
\* disposition of every transaction recorded for another customer as it
\* was, whatever the outcome.
Inv_C24_OtherCustomersUntouched ==
    \A req \in ValidRequests :
        LET out == handle_transaction(Current, req)
        IN  /\ \A c \in CustomerIds \ {req.client_id} :
                  get(out.ledger.accounts, c) = get(accounts, c)
            /\ \A t \in DOMAIN history :
                  history[t].client_id # req.client_id
                      => get(out.ledger.state, t) = get(state, t)

\* Both customers have an account with funds on hold, one of them is
\* locked and the other is not.
Wit_C24_BothCustomersInDispute ==
    \E c, d \in DOMAIN accounts :
        /\ accounts[c].held > 0 /\ accounts[c].locked
        /\ accounts[d].held > 0 /\ ~accounts[d].locked

\* C25: a disposition exists only for an id with a stored record, and
\* exactly for the ids a Dispute was applied to: handling a request adds a
\* disposition only when it is an applied Dispute of that id (which always
\* leaves one), never removes one, and an applied Resolve leaves the
\* disposition in place with held = false and charged_back = false.
Inv_C25_DispositionIffDisputed ==
    /\ DOMAIN state \subseteq DOMAIN history
    /\ \A req \in ValidRequests :
          LET out == handle_transaction(Current, req)
              t == req.transaction_id
              IsAppliedDispute == req.transaction_type = "Dispute" /\ Applied(out)
          IN  /\ DOMAIN state \subseteq DOMAIN out.ledger.state
              /\ DOMAIN out.ledger.state =
                    IF IsAppliedDispute THEN DOMAIN state \cup {t} ELSE DOMAIN state
              /\ (req.transaction_type = "Resolve" /\ Applied(out))
                    => read_transaction_state(out.ledger.state, t)
                          = Some([held |-> FALSE, charged_back |-> FALSE])

\* A recorded transaction never disputed, one on hold that a Resolve can
\* release, and one whose dispute was resolved.
Wit_C25_NeverDisputedHeldAndResolved ==
    \E t, u, v \in DOMAIN history :
        /\ t \notin DOMAIN state
        /\ u \in DOMAIN state /\ state[u].held
        /\ v \in DOMAIN state /\ ~state[v].held /\ ~state[v].charged_back

\* The expected rejections, by name.
Rejection(L, req, kind) ==
    LET c == req.client_id
        t == req.transaction_id
    IN  CASE kind = "duplicate id" ->
                IsDepositOrWithdrawal(req) /\ t \in DOMAIN L.history
          [] kind = "locked account" ->
                /\ req.transaction_type = "Withdrawal"
                /\ c \in DOMAIN L.accounts
                /\ L.accounts[c].locked
          [] kind = "insufficient funds" ->
                /\ req.transaction_type = "Withdrawal"
                /\ c \in DOMAIN L.accounts
                /\ L.accounts[c].available < req.amount[1]
          [] kind = "missing account" ->
                req.transaction_type = "Withdrawal" /\ c \notin DOMAIN L.accounts
          [] kind = "missing transaction" ->
                IsDisputeStep(req) /\ t \notin DOMAIN L.history
          [] kind = "client mismatch" ->
                IsDisputeStep(req) /\ Spoofed(L, req)
          [] kind = "already held" ->
                /\ req.transaction_type = "Dispute"
                /\ t \in DOMAIN L.state
                /\ L.state[t].held
          [] kind = "already charged back" ->
                /\ req.transaction_type = "Dispute"
                /\ t \in DOMAIN L.state
                /\ L.state[t].charged_back

RejectionKinds ==
    {"duplicate id", "locked account", "insufficient funds", "missing account",
     "missing transaction", "client mismatch", "already held",
     "already charged back"}

\* C26: every request that passed the filter gets Ok(true) or Ok(false)
\* from handle_transaction, never a fatal error, and each expected
\* rejection gets Ok(false).
Inv_C26_RejectionsAreOkFalse ==
    \A req \in ValidRequests :
        LET out == handle_transaction(Current, req)
        IN  /\ Applied(out) \/ Skipped(out)
            /\ \A kind \in RejectionKinds :
                  Rejection(Current, req, kind) => Skipped(out)

\* A state where a request of every rejection kind can be made.
Wit_C26_EveryRejectionPossible ==
    \A kind \in RejectionKinds :
        \E req \in ValidRequests : Rejection(Current, req, kind)

\* The Resolve or Chargeback passes every skip of its handler (record
\* found, client matches, transaction under dispute, account present) and
\* then finds the account holding less than the disputed amount.
FindsHeldShort(L, req) ==
    /\ req.transaction_type \in {"Resolve", "Chargeback"}
    /\ req.transaction_id \in DOMAIN L.history
    /\ L.history[req.transaction_id].client_id = req.client_id
    /\ UnderDispute(L, req.transaction_id)
    /\ req.client_id \in DOMAIN L.accounts
    /\ L.accounts[req.client_id].held < L.history[req.transaction_id].amount[1]

\* C27 as stated: when Resolve or Chargeback finds the held amount smaller
\* than the disputed amount, nothing is applied and handle_transaction
\* returns an error value to its caller (not Ok(false), and the process
\* goes on).
Orig_C27_HeldShortIsReturnedAsError ==
    \A req \in DirectRequests :
        FindsHeldShort(Current, req) =>
            LET out == handle_transaction(Current, req)
            IN  /\ out.ledger = Current
                /\ out.result = "Err"

\* C27, what the code does instead: when Resolve or Chargeback finds the
\* held amount smaller than the disputed amount, the handler panics before
\* any write: nothing is applied and no value is returned, the process
\* ends.  set_held_amount and set_locked_status on a customer without an
\* account panic likewise and leave the storage as it was.
Inv_C27_HeldShortPanics ==
    /\ \A req \in DirectRequests :
          FindsHeldShort(Current, req)
              => handle_transaction(Current, req) = Panic(Current)
    /\ \A c \in CustomerIds \ DOMAIN accounts :
          /\ \A balance \in 0..MaxAmount :
                set_held_amount(accounts, c, balance) = StorePanic(accounts)
          /\ \A locked \in BOOLEAN :
                set_locked_status(accounts, c, locked) = StorePanic(accounts)

\* A transaction under dispute whose amount is more than its owner's
\* account holds (an earlier Deposit of a negative amount, handled without
\* the filter and then disputed, took the held amount down), while
\* another customer has no account.
Wit_C27_HeldBelowDisputedAmount ==
    /\ \E t \in DOMAIN state :
          /\ UnderDispute(Current, t)
          /\ accounts[history[t].client_id].held < history[t].amount[1]
    /\ DOMAIN accounts # CustomerIds

\* C28: in every reachable state every vector list_accounts can return
\* has exactly one entry per existing account, each entry carrying that
\* account's available, held and locked and a total equal to its
\* available + held.
Inv_C28_ReportTotalIsAvailablePlusHeld ==
    \A reports \in list_accounts(accounts) :
        /\ Len(reports) = Cardinality(DOMAIN accounts)
        /\ {reports[i].client : i \in 1..Len(reports)} = DOMAIN accounts
        /\ \A i \in 1..Len(reports) :
              LET account == accounts[reports[i].client]
              IN  /\ reports[i].available = account.available
                  /\ reports[i].held = account.held
                  /\ reports[i].locked = account.locked
                  /\ reports[i].total = account.available + account.held

\* Every customer has an account with funds on hold, one of them with a
\* negative available amount, so the report has several entries and
\* totals that differ from the available amounts.
Wit_C28_SeveralAccountsWithHeldFunds ==
    /\ DOMAIN accounts = CustomerIds
    /\ \A c \in DOMAIN accounts : accounts[c].held > 0
    /\ \E c \in DOMAIN accounts : accounts[c].available < 0

Abs(n) == IF n >= 0 THEN n ELSE -n

\* d is v with every fractional digit beyond the first enforced_scale
\* dropped: d has enforced_scale fractional digits, the sign of v, and its
\* digit string is the longest-cut prefix of v's (no digit changed).
IsTruncationOf(d, v) ==
    LET k == Pow10(v.scale - enforced_scale)
    IN  /\ d.scale = enforced_scale
        /\ (d.m >= 0 /\ v.m >= 0) \/ (d.m <= 0 /\ v.m <= 0)
        /\ Abs(d.m) * k <= Abs(v.m)
        /\ Abs(v.m) < (Abs(d.m) + 1) * k

\* C30: the reader passes a record on with its type, client and tx as
\* they were; an amount with at most 4 fractional digits (or no amount) is
\* passed on unchanged; an amount with more is replaced by the same value
\* with every digit beyond the 4th dropped, never rounded.
Inv_C30_ReaderTruncatesToFourDigits ==
    call.op = "read_record" =>
        LET in == call.input
            out == call.output
        IN  /\ out.transaction_type = in.transaction_type
            /\ out.client_id = in.client_id
            /\ out.transaction_id = in.transaction_id
            /\ IF in.amount = None THEN out.amount = None
               ELSE IF in.amount[1].scale <= enforced_scale
               THEN out.amount = in.amount
               ELSE /\ out.amount # None
                    /\ IsTruncationOf(out.amount[1], in.amount[1])

\* The test's case: 10.23456 was read and 10.2345 came out, where rounding
\* would have given 10.2346.
Wit_C30_TestAmountTruncated ==
    /\ call.op = "read_record"
    /\ call.input.amount = Some(TestAmount)
    /\ call.output.amount = Some(Decimal(102345, 4))

\* C29: when every amount that reaches handle_transaction has at most 4
\* fractional digits, every account's available and held has at most 4
\* after any sequence of requests, and the scale check of print_report
\* passes.
Inv_C29_ScalesStayWithinFour ==
    /\ DOMAIN scales.available = DOMAIN accounts
    /\ DOMAIN scales.held = DOMAIN accounts
    /\ \A c \in DOMAIN accounts :
          /\ scales.available[c] <= 4
          /\ scales.held[c] <= 4
    /\ print_report(scales) # "panic"

\* Amounts of scale 0 and of scale 4 have been recorded and disputed: an
\* account has both its available and its held at scale 4.
Wit_C29_MixedScalesReachFour ==
    /\ \E t, u \in DOMAIN scales.amount :
          scales.amount[t] = 0 /\ scales.amount[u] = 4
    /\ \E c \in DOMAIN accounts :
          /\ scales.available[c] = 4
          /\ scales.held[c] = 4
          /\ accounts[c].held > 0

\* The values the store setters are called with in the checks below.
StoreValues == (0 - MaxAmount)..MaxAmount

\* C31: in every reachable account store, set_available(c, v) on a customer
\* without an account succeeds and creates the account with available = v,
\* held = 0 and locked = false; on a customer with an account it succeeds
\* and overwrites only available, leaving held and locked as they were.
\* In both cases every other account stays as it was and get_available
\* then returns v.
Inv_C31_SetAvailableCreatesOrOverwrites ==
    \A c \in CustomerIds : \A v \in StoreValues :
        LET r == set_available(accounts, c, v)
        IN  /\ ~r.panicked
            /\ DOMAIN r.storage = DOMAIN accounts \cup {c}
            /\ \A o \in DOMAIN accounts : o # c => r.storage[o] = accounts[o]
            /\ get_available(r.storage, c) = Some(v)
            /\ IF c \in DOMAIN accounts
               THEN /\ r.storage[c].held = accounts[c].held
                    /\ r.storage[c].locked = accounts[c].locked
               ELSE /\ r.storage[c].held = 0
                    /\ r.storage[c].locked = FALSE

\* One customer has no account yet and another has a locked account with
\* funds on hold and an available amount other than zero.
Wit_C31_AbsentAndLockedHoldingAccount ==
    /\ \E c \in CustomerIds : c \notin DOMAIN accounts
    /\ \E c \in DOMAIN accounts :
          /\ accounts[c].locked
          /\ accounts[c].held > 0
          /\ accounts[c].available # 0

\* C32: in every reachable account store, set_held_amount and
\* set_locked_status on a customer without an account fail fatally and
\* leave the store as it was (no account is created); on a customer with an
\* account they succeed, overwrite only the named field and leave every
\* other field and account as it was, and the matching getter then returns
\* the value.
Inv_C32_HeldAndLockedSettersNeedAccount ==
    \A c \in CustomerIds :
        /\ \A v \in StoreValues :
              LET r == set_held_amount(accounts, c, v)
              IN  IF c \in DOMAIN accounts
                  THEN /\ ~r.panicked
                       /\ r.storage = [accounts EXCEPT ![c].held = v]
                       /\ r.storage[c].available = accounts[c].available
                       /\ r.storage[c].locked = accounts[c].locked
                       /\ get_held_amount(r.storage, c) = Some(v)
                  ELSE r.panicked /\ r.storage = accounts
        /\ \A b \in BOOLEAN :
              LET r == set_locked_status(accounts, c, b)
              IN  IF c \in DOMAIN accounts
                  THEN /\ ~r.panicked
                       /\ r.storage = [accounts EXCEPT ![c].locked = b]
                       /\ r.storage[c].available = accounts[c].available
                       /\ r.storage[c].held = accounts[c].held
                       /\ get_locked_status(r.storage, c) = Some(b)
                  ELSE r.panicked /\ r.storage = accounts

\* One customer has no account, another has an unlocked account whose
\* available and held amounts differ and are both positive.
Wit_C32_AbsentAndUnlockedHoldingAccount ==
    /\ \E c \in CustomerIds : c \notin DOMAIN accounts
    /\ \E c \in DOMAIN accounts :
          /\ ~accounts[c].locked
          /\ accounts[c].held > 0
          /\ accounts[c].available > 0
          /\ accounts[c].available # accounts[c].held

\* The recorded transactions of customer c that have the given type.
RecordsOfType(L, c, type) ==
    {t \in DOMAIN L.history :
        L.history[t].client_id = c /\ L.history[t].transaction_type = type}

\* The recorded transactions of customer c that are charged back.
ChargedBackTransactions(L, c) ==
    {t \in DOMAIN L.history :
        /\ L.history[t].client_id = c
        /\ t \in DOMAIN L.state
        /\ L.state[t].charged_back}

\* available + held of customer c, zero when there is no account.
Funds(L, c) ==
    IF c \in DOMAIN L.accounts
    THEN L.accounts[c].available + L.accounts[c].held
    ELSE 0

\* C34: conservation of funds.  In every reachable state, for every
\* customer available + held equals the sum of the customer's applied
\* (recorded) Deposit amounts minus the sum of the applied Withdrawal
\* amounts minus the sum of the amounts of the charged-back transactions,
\* and no Dispute or Resolve changes available + held of any customer.
Inv_C34_FundsAreConserved ==
    /\ \A c \in CustomerIds :
          Funds(Current, c) =
              SumAmounts(history, RecordsOfType(Current, c, "Deposit"))
            - SumAmounts(history, RecordsOfType(Current, c, "Withdrawal"))
            - SumAmounts(history, ChargedBackTransactions(Current, c))
    /\ \A req \in ValidRequests :
          req.transaction_type \in {"Dispute", "Resolve"} =>
              \A c \in CustomerIds :
                  Funds(handle_transaction(Current, req).ledger, c)
                      = Funds(Current, c)

\* A customer with an applied Deposit, an applied Withdrawal and a
\* charged-back transaction, whose funds are not zero, while a Dispute and
\* a Resolve of that customer are both about to be applied.
Wit_C34_DepositWithdrawalAndChargeback ==
    \E c \in DOMAIN accounts :
        /\ RecordsOfType(Current, c, "Deposit") # {}
        /\ RecordsOfType(Current, c, "Withdrawal") # {}
        /\ ChargedBackTransactions(Current, c) # {}
        /\ Funds(Current, c) # 0
        /\ \E r1, r2 \in ValidRequests :
              /\ r1.client_id = c /\ r1.transaction_type = "Dispute"
              /\ r2.client_id = c /\ r2.transaction_type = "Resolve"
              /\ Applied(handle_transaction(Current, r1))
              /\ Applied(handle_transaction(Current, r2))

\* C35: available is negative only because of a dispute.  In every
\* reachable state a customer none of whose recorded transactions has
\* held = true or charged_back = true has available >= 0, and an applied
\* Chargeback leaves available as it was, so an available amount that a
\* dispute made negative stays negative after the chargeback.
Inv_C35_NegativeAvailableOnlyByDispute ==
    /\ \A c \in DOMAIN accounts :
          (HeldTransactions(Current, c) = {}
           /\ ChargedBackTransactions(Current, c) = {})
              => accounts[c].available >= 0
    /\ \A req \in ValidRequests :
          LET out == handle_transaction(Current, req)
          IN  (req.transaction_type = "Chargeback" /\ Applied(out))
                => out.ledger.accounts[req.client_id].available
                       = accounts[req.client_id].available

\* A customer with a negative available amount and a transaction on hold
\* whose Chargeback is about to be applied: the dispute is over afterwards
\* and the available amount is still negative.
Wit_C35_NegativeDuringAndAfterDispute ==
    \E req \in ValidRequests :
        LET out == handle_transaction(Current, req)
            c == req.client_id
        IN  /\ req.transaction_type = "Chargeback"
            /\ Applied(out)
            /\ accounts[c].available < 0
            /\ HeldTransactions(out.ledger, c) = {}
            /\ out.ledger.accounts[c].available < 0

\* C36: no fatal path is reachable through the processor.  In every
\* reachable state no request has ended in a panic and no structurally
\* valid request would: whenever a record exists for a transaction the
\* owner's account exists and, if the transaction is held, the account's
\* held amount is at least the recorded amount, and every record has an
\* amount.
Inv_C36_NoPanicReachable ==
    /\ ~panicked
    /\ \A req \in ValidRequests :
          handle_transaction(Current, req).result # "panic"
    /\ \A t \in DOMAIN history :
          /\ history[t].amount # None
          /\ history[t].client_id \in DOMAIN accounts
          /\ (t \in DOMAIN state /\ state[t].held)
                => accounts[history[t].client_id].held >= history[t].amount[1]

\* Two transactions of one customer are on hold and a third has been
\* charged back, so the held amount has been raised and lowered, and a
\* Resolve and a Chargeback are about to be applied.
Wit_C36_HeldRaisedAndLowered ==
    \E c \in DOMAIN accounts :
        /\ Cardinality(HeldTransactions(Current, c)) >= 2
        /\ ChargedBackTransactions(Current, c) # {}
        /\ \E req \in ValidRequests :
              /\ req.client_id = c
              /\ Applied(handle_transaction(Current, Follow(req, "Resolve")))
              /\ Applied(handle_transaction(Current, Follow(req, "Chargeback")))

\* C37: in every reachable state an account is locked if and only if some
\* transaction recorded for its customer is charged back, and the only
\* request that turns an account's lock on is an applied Chargeback of
\* that customer.
Inv_C37_LockedIffChargedBack ==
    /\ \A c \in DOMAIN accounts :
          accounts[c].locked <=> ChargedBackTransactions(Current, c) # {}
    /\ \A req \in ValidRequests : \A c \in CustomerIds :
          LET out == handle_transaction(Current, req)
              was == c \in DOMAIN accounts /\ accounts[c].locked
              is  == c \in DOMAIN out.ledger.accounts
                       /\ out.ledger.accounts[c].locked
          IN  (is /\ ~was) =>
                  /\ req.transaction_type = "Chargeback"
                  /\ req.client_id = c
                  /\ Applied(out)

\* One account is locked after a chargeback while the other is unlocked
\* although a deposit, a dispute and a resolve have changed it.
Wit_C37_OneLockedOneResolved ==
    /\ \E c \in DOMAIN accounts :
          accounts[c].locked /\ ChargedBackTransactions(Current, c) # {}
    /\ \E c \in DOMAIN accounts :
          /\ ~accounts[c].locked
          /\ \E t \in DOMAIN state :
                /\ history[t].client_id = c
                /\ ~state[t].held /\ ~state[t].charged_back

\* C38: a resolved transaction can be disputed again.  In every reachable
\* state, a Dispute that is applied can be followed by a Resolve and a
\* further Dispute of the same transaction by the same client, both
\* applied, with the disposition held = false, charged_back = false in
\* between, and the second Dispute leads to the very ledger the first one
\* led to, so the cycle repeats any number of times; every Dispute of a
\* transaction whose stored disposition is held = false, charged_back =
\* false is applied; and once a Chargeback has been applied no Dispute of
\* that transaction is applied, by any client.
Inv_C38_ResolvedCanBeDisputedAgain ==
    /\ \A req \in ValidRequests :
          LET d1 == handle_transaction(Current, Follow(req, "Dispute"))
              r1 == handle_transaction(d1.ledger, Follow(req, "Resolve"))
              d2 == handle_transaction(r1.ledger, Follow(req, "Dispute"))
              cb == handle_transaction(d2.ledger, Follow(req, "Chargeback"))
          IN  Applied(d1) =>
                /\ Applied(r1)
                /\ r1.ledger.state[req.transaction_id] =
                       [held |-> FALSE, charged_back |-> FALSE]
                /\ Applied(d2)
                /\ d2.ledger = d1.ledger
                /\ Applied(cb)
                /\ \A other \in ValidRequests :
                      (other.transaction_type = "Dispute"
                       /\ other.transaction_id = req.transaction_id)
                          => SkippedUnchanged(cb.ledger,
                                 handle_transaction(cb.ledger, other))
    /\ \A req \in ValidRequests :
          (/\ req.transaction_type = "Dispute"
           /\ req.transaction_id \in DOMAIN state
           /\ state[req.transaction_id] = [held |-> FALSE, charged_back |-> FALSE]
           /\ history[req.transaction_id].client_id = req.client_id)
              => Applied(handle_transaction(Current, req))

\* A transaction that has been disputed and resolved is stored next to a
\* charged-back one of the same customer, whose account is therefore
\* locked, and a Dispute of the resolved one is about to be applied.
Wit_C38_ResolvedNextToChargedBack ==
    \E t \in DOMAIN state : \E u \in DOMAIN state :
        /\ state[t] = [held |-> FALSE, charged_back |-> FALSE]
        /\ state[u].charged_back
        /\ history[t].client_id = history[u].client_id
        /\ \E req \in ValidRequests :
              /\ req.transaction_type = "Dispute"
              /\ req.transaction_id = t
              /\ Applied(handle_transaction(Current, req))

\* C39: the lock blocks only withdrawals.  In every reachable state, for a
\* customer whose account is locked: a Deposit with a transaction id that
\* is not stored is applied and raises available by its amount; a Dispute
\* of a transaction of the customer that is neither held nor charged back
\* is applied; a Resolve and a Chargeback of a transaction of the customer
\* that is held are applied.
Inv_C39_LockBlocksOnlyWithdrawals ==
    \A req \in ValidRequests :
        LET c == req.client_id
            t == req.transaction_id
            out == handle_transaction(Current, req)
            own == t \in DOMAIN history /\ history[t].client_id = c
        IN  (c \in DOMAIN accounts /\ accounts[c].locked) =>
              /\ (req.transaction_type = "Deposit" /\ t \notin DOMAIN history)
                    => /\ Applied(out)
                       /\ out.ledger.accounts[c].available
                              = accounts[c].available + req.amount[1]
              /\ (req.transaction_type = "Dispute" /\ own
                    /\ ~HeldOrChargedBack(Current, t))
                    => Applied(out)
              /\ (req.transaction_type \in {"Resolve", "Chargeback"} /\ own
                    /\ UnderDispute(Current, t))
                    => Applied(out)

\* A locked account with a transaction on hold and a transaction id that
\* is still free.
Wit_C39_LockedWithHeldAndFreeId ==
    \E c \in DOMAIN accounts :
        /\ accounts[c].locked
        /\ HeldTransactions(Current, c) # {}
        /\ \E t \in TransactionIds : t \notin DOMAIN history

\* The ledger L with the recorded type of transaction t exchanged
\* (Deposit for Withdrawal and Withdrawal for Deposit).
WithOtherType(L, t) ==
    Ledger(L.accounts,
           [L.history EXCEPT ![t].transaction_type =
                IF @ = "Deposit" THEN "Withdrawal" ELSE "Deposit"],
           L.state)

\* C40: Dispute, Resolve and Chargeback treat a recorded Withdrawal exactly
\* like a recorded Deposit.  In every reachable state every Dispute,
\* Resolve and Chargeback has the same outcome and leaves the same accounts
\* and dispositions when the recorded type of its transaction is
\* exchanged; and for a recorded Withdrawal of amount a, an applied
\* Dispute lowers available by a and raises held by a, a following Resolve
\* is applied and puts both back, and a following Chargeback is applied,
\* lowers held by a again, leaves available lowered and locks the account.
Inv_C40_WithdrawalRecordsTreatedAsDeposits ==
    \A req \in ValidRequests :
        LET c == req.client_id
            t == req.transaction_id
        IN  /\ (~IsDepositOrWithdrawal(req) /\ t \in DOMAIN history) =>
                  LET out == handle_transaction(Current, req)
                      alt == handle_transaction(WithOtherType(Current, t), req)
                  IN  /\ alt.result = out.result
                      /\ alt.ledger.accounts = out.ledger.accounts
                      /\ alt.ledger.state = out.ledger.state
            /\ (/\ req.transaction_type = "Dispute"
                /\ t \in DOMAIN history
                /\ history[t].transaction_type = "Withdrawal") =>
                  LET a  == history[t].amount[1]
                      d  == handle_transaction(Current, req)
                      r  == handle_transaction(d.ledger, Follow(req, "Resolve"))
                      cb == handle_transaction(d.ledger, Follow(req, "Chargeback"))
                  IN  Applied(d) =>
                        /\ d.ledger.accounts[c].available = accounts[c].available - a
                        /\ d.ledger.accounts[c].held = accounts[c].held + a
                        /\ Applied(r)
                        /\ r.ledger.accounts[c].available = accounts[c].available
                        /\ r.ledger.accounts[c].held = accounts[c].held
                        /\ Applied(cb)
                        /\ cb.ledger.accounts[c].available = accounts[c].available - a
                        /\ cb.ledger.accounts[c].held = accounts[c].held
                        /\ cb.ledger.accounts[c].locked

\* A Withdrawal is recorded for an unlocked account that it has emptied,
\* and its Dispute is about to be applied, taking available below zero.
Wit_C40_DisputeOfWithdrawalGoesNegative ==
    \E req \in ValidRequests :
        LET t == req.transaction_id
            out == handle_transaction(Current, req)
        IN  /\ req.transaction_type = "Dispute"
            /\ t \in DOMAIN history
            /\ history[t].transaction_type = "Withdrawal"
            /\ history[t].client_id = req.client_id
            /\ ~accounts[req.client_id].locked
            /\ accounts[req.client_id].available = 0
            /\ Applied(out)
            /\ out.ledger.accounts[req.client_id].available < 0

\* The store calls of each handler, in the order the code makes them.
HandlerCalls(type) ==
    CASE type = "Deposit" ->
            <<"read_transaction", "get_available", "set_available",
              "write_transaction">>
      [] type = "Withdrawal" ->
            <<"read_transaction", "get_locked_status", "get_available",
              "set_available", "write_transaction">>
      [] type = "Dispute" ->
            <<"get_available", "read_transaction", "read_transaction_state",
              "set_available", "get_held_amount", "set_held_amount",
              "write_transaction_state">>
      [] type = "Resolve" ->
            <<"get_available", "read_transaction", "read_transaction_state",
              "get_held_amount", "set_available", "set_held_amount",
              "write_transaction_state">>
      [] type = "Chargeback" ->
            <<"read_transaction", "read_transaction_state", "get_held_amount",
              "set_held_amount", "set_locked_status",
              "write_transaction_state">>

CallsOf(type) == {HandlerCalls(type)[i] : i \in DOMAIN HandlerCalls(type)}

\* The calls a handler makes before the call named failing.
CallsBefore(type, failing) ==
    {HandlerCalls(type)[i] : i \in
        {j \in DOMAIN HandlerCalls(type) :
            \E k \in DOMAIN HandlerCalls(type) :
                HandlerCalls(type)[k] = failing /\ j < k}}

\* The ledger L with exactly the writes named in done made as the complete
\* handling of req makes them (full is the ledger after that handling).
KeptWrites(L, full, req, done) ==
    LET c == req.client_id
        old == IF c \in DOMAIN L.accounts THEN L.accounts[c]
               ELSE CustomerAccountNew(0, 0, FALSE)
        account ==
            [available |-> IF "set_available" \in done
                           THEN full.accounts[c].available ELSE old.available,
             held      |-> IF "set_held_amount" \in done
                           THEN full.accounts[c].held ELSE old.held,
             locked    |-> IF "set_locked_status" \in done
                           THEN full.accounts[c].locked ELSE old.locked]
    IN  Ledger(IF done \cap {"set_available", "set_held_amount",
                             "set_locked_status"} = {}
               THEN L.accounts
               ELSE [x \in DOMAIN L.accounts \cup {c} |->
                        IF x = c THEN account ELSE L.accounts[x]],
               IF "write_transaction" \in done THEN full.history ELSE L.history,
               IF "write_transaction_state" \in done THEN full.state ELSE L.state)

\* C33: a store failure leaves partial effects.  In every state reachable
\* over stores that can fail, for every structurally valid request and
\* every store method that fails: the handling either never makes that
\* call and ends as over working stores, or returns Err; a request that
\* would be applied returns Err for each of its handler's calls; and after
\* an Err the ledger holds exactly the writes the handler made before the
\* failing call, none undone.  In particular a Dispute whose
\* set_held_amount fails leaves available lowered by the amount with held
\* and the dispositions as they were, and a Deposit whose write_transaction
\* fails leaves available raised with no record, so the same Deposit
\* handled again over working stores is applied and raises it again.
Inv_C33_StoreFailureLeavesPartialEffects ==
    \A req \in FailingRequests :
        LET c    == req.client_id
            t    == req.transaction_id
            type == req.transaction_type
            full == handle_transaction(Current, req)
        IN  /\ handle_transaction_Failing(Current, req, "none") = full
            /\ \A failing \in StoreCalls \ CallsOf(type) :
                  handle_transaction_Failing(Current, req, failing) = full
            /\ \A failing \in CallsOf(type) :
                  LET out == handle_transaction_Failing(Current, req, failing)
                  IN  IF out.result = "Err"
                      THEN out.ledger = KeptWrites(Current, full.ledger, req,
                                                   CallsBefore(type, failing))
                      ELSE out = full /\ ~Applied(full)
            /\ (type = "Dispute" /\ Applied(full)) =>
                  LET out == handle_transaction_Failing(Current, req,
                                                        "set_held_amount")
                  IN  /\ out.result = "Err"
                      /\ out.ledger.accounts[c].available
                             = accounts[c].available - history[t].amount[1]
                      /\ out.ledger.accounts[c].held = accounts[c].held
                      /\ out.ledger.state = state
            /\ (type = "Deposit" /\ Applied(full)) =>
                  LET out == handle_transaction_Failing(Current, req,
                                                        "write_transaction")
                      again == handle_transaction(out.ledger, req)
                      before == unwrap_or(get_available(accounts, c), 0)
                  IN  /\ out.result = "Err"
                      /\ out.ledger.history = history
                      /\ t \notin DOMAIN out.ledger.history
                      /\ out.ledger.accounts[c].available
                             = before + req.amount[1]
                      /\ Applied(again)
                      /\ again.ledger.accounts[c].available
                             = before + 2 * req.amount[1]

\* A Deposit has met a failing write_transaction: a store call has failed,
\* there is money available and no record at all.
Wit_C33_DepositLeftWithoutRecord ==
    /\ failures = 1
    /\ history = EmptyMap
    /\ \E c \in DOMAIN accounts : accounts[c].available > 0

====
